---- MODULE Spec2Model ----
(***************************************************************************)
(* Model of the Catan game server (i-jared/catan, src/catan_api).          *)
(*                                                                         *)
(* The game state is the Game struct of catan_types.h together with the    *)
(* trade-offer list used by ai_agent.cpp.  Commands are the HTTP handlers  *)
(* of server.cpp, the tools of handleExecuteAITool (ai/execute), the tools *)
(* of AITurnExecutor::executeToolCall (the server-side AI thread) and the  *)
(* engine functions of game_logic.cpp.  Chat messages and SSE broadcasts   *)
(* carry no game rules and are left out of the state.                      *)
(***************************************************************************)
EXTENDS Integers, Sequences, FiniteSets, TLC

VARIABLES
    phase,                  \* Game::phase
    currentPlayerIndex,     \* Game::currentPlayerIndex
    players,                \* Game::players (sequence, player id = index - 1)
    hexes,                  \* GameBoard::hexes
    vertices,               \* GameBoard::vertices
    edges,                  \* GameBoard::edges
    robberLocation,         \* GameBoard::robberLocation
    devCardDeck,            \* Game::devCardDeck
    lastRoll,               \* Game::lastRoll
    devCardPlayedThisTurn,  \* Game::devCardPlayedThisTurn
    tradeOffers,            \* Game::tradeOffers
    nextTradeId,            \* Game::nextTradeId
    achievements,           \* Game::longestRoadLength ... Game::largestArmyPlayerId
    response,               \* what the last command returned to its caller
    turnsEnded,             \* number of turns ended so far (bounded by MaxTurns)
    mutex,                  \* Game::mutex: the thread holding it, or NoThread
    threads,                \* the HTTP handler threads and the AI thread
    executor                \* aiExecutors and aiExecutorsMutex (server.cpp), AITurnExecutor

gameVars == <<phase, currentPlayerIndex, players, hexes, vertices, edges,
              robberLocation, devCardDeck, lastRoll, devCardPlayedThisTurn,
              tradeOffers, nextTradeId, achievements>>

vars == <<phase, currentPlayerIndex, players, hexes, vertices, edges,
          robberLocation, devCardDeck, lastRoll, devCardPlayedThisTurn,
          tradeOffers, nextTradeId, achievements, response, turnsEnded, mutex,
          threads, executor>>

(***************************************************************************)
(* Bounds of the model.                                                    *)
(***************************************************************************)
\* players that may join (the program's own cap is maxPlayers)
MaxSeats == 2
\* victory-point cards a player may hold in a position handed to checkForWinner
MaxVictoryCards == 2
\* settlements a player may have on the board in such a position
MaxSettlementsBuilt == 1
\* cities a player may still have in the pool in such a position
MaxCitiesLeft == 1
\* board shuffles tried: the terrain and token lists are rotated by 0..MaxShuffle
MaxShuffle == 0
\* rotations 0..MaxResourceShuffle of the terrain list and 0..MaxNumberShuffle
\* of the token list that a newly created game may draw as shuffle outcomes
MaxResourceShuffle == 18
MaxNumberShuffle == 17
\* faces of the second die that are tried (the first die takes all six)
MaxDie1 == 1
MaxDie2 == 1
\* number of coordinates of InputHexList that commands may name
MaxInputHexes == 2
\* directions 0..MaxInputDir that commands may name
MaxInputDir == 1
\* turns that may be ended
MaxTurns == 1
\* trade offers that may be created
MaxTrades == 1
\* amount of a resource that a trade offer may give or ask
MaxTradeAmount == 1
\* handler threads that serve requests at the same time
MaxThreads == 2
\* seats a trade offer may be addressed to
MaxTradeTarget == 0
\* rejections recorded on one trade offer
MaxRejects == 1
\* largest random index drawn when a resource is stolen
MaxPick == 0
\* cards left in the draw pile of a position late in a game
MaxPile == 2
\* wheat, sheep and ore a buyer may hold in such a position
MaxPurse == 2
\* knights a player may play
MaxKnights == 4
\* roads a player may lay around the home hex
MaxTitleRoads == 6

(***************************************************************************)
(* Program constants.                                                      *)
(***************************************************************************)
maxPlayers == 4
DieFaces == 6
RobberTotal == 7
BankRatio == 4
InitialSettlements == 5
InitialCities == 4
InitialRoads == 15
StartingAmount == 2
\* checkForWinner: the points that win
WinningPoints == 10
\* updateLongestRoad: the length that claims the longest road
MinLongestRoad == 5
\* updateLargestArmy: the knights that claim the largest army
MinLargestArmy == 3

NoPlayer == -1
NoThread == -1

Resources == {"wood", "brick", "wheat", "sheep", "ore"}

Min(a, b) == IF a < b THEN a ELSE b

\* HEX_DIRS
HEX_DIRS == << <<0, -1>>, <<1, -1>>, <<1, 0>>, <<0, 1>>, <<-1, 1>>, <<-1, 0>> >>

\* HEX_DIRS[d] for d in 0..5
Dir(d) == HEX_DIRS[d + 1]

\* LAND_HEX_COORDS
LAND_HEX_COORDS ==
    << <<0, 0>>,
       <<1, -1>>, <<1, 0>>, <<0, 1>>, <<-1, 1>>, <<-1, 0>>, <<0, -1>>,
       <<2, -2>>, <<2, -1>>, <<2, 0>>, <<1, 1>>, <<0, 2>>, <<-1, 2>>,
       <<-2, 2>>, <<-2, 1>>, <<-2, 0>>, <<-1, -1>>, <<0, -2>>, <<1, -2>> >>

\* STANDARD_RESOURCES
STANDARD_RESOURCES ==
    << "Desert",
       "Forest", "Forest", "Forest", "Forest",
       "Hills", "Hills", "Hills",
       "Fields", "Fields", "Fields", "Fields",
       "Pasture", "Pasture", "Pasture", "Pasture",
       "Mountains", "Mountains", "Mountains" >>

\* STANDARD_NUMBERS
STANDARD_NUMBERS == <<2, 3, 3, 4, 4, 5, 5, 6, 6, 8, 8, 9, 9, 10, 10, 11, 11, 12>>

LandHexes == {LAND_HEX_COORDS[i] : i \in 1..Len(LAND_HEX_COORDS)}

\* keys of GameBoard::vertices and GameBoard::edges: <<q, r, direction>>
BoardKeys == {<<h[1], h[2], d>> : h \in LandHexes, d \in 0..5}

\* hexTypeToResource
hexTypeToResource(type) ==
    CASE type = "Forest" -> "wood"
      [] type = "Hills" -> "brick"
      [] type = "Fields" -> "wheat"
      [] type = "Pasture" -> "sheep"
      [] type = "Mountains" -> "ore"
      [] OTHER -> "none"

(***************************************************************************)
(* Coordinate helpers of game_logic.cpp.                                   *)
(***************************************************************************)
\* the hex next to hex <<q, r>> in direction d
Neighbor(q, r, d) == <<q + Dir(d)[1], r + Dir(d)[2]>>

\* getAdjacentVertices(vertex): the three vertex coordinates it returns
getAdjacentVertices(v) ==
    LET q == v[1]
        r == v[2]
        d == v[3]
        n == Neighbor(q, r, d)
    IN  << <<q, r, (d + 1) % 6>>, <<q, r, (d + 5) % 6>>, <<n[1], n[2], (d + 3) % 6>> >>

\* getEdgesAtVertex(vertex)
getEdgesAtVertex(v) ==
    LET q == v[1]
        r == v[2]
        d == v[3]
        n == Neighbor(q, r, d)
    IN  << <<q, r, d>>, <<q, r, (d + 5) % 6>>, <<n[1], n[2], (d + 4) % 6>> >>

\* getVerticesOfEdge(edge)
getVerticesOfEdge(e) == << <<e[1], e[2], e[3]>>, <<e[1], e[2], (e[3] + 1) % 6>> >>

\* getHexesAdjacentToVertex(vertex): the hex and its neighbours in directions d and d-1
getHexesAdjacentToVertex(v) ==
    {<<v[1], v[2]>>, Neighbor(v[1], v[2], v[3]), Neighbor(v[1], v[2], (v[3] + 5) % 6)}

(***************************************************************************)
(* Board generation (catan_game.cpp).                                      *)
(***************************************************************************)
\* a shuffle outcome: the sequence rotated left by k
Rotate(s, k) == [i \in 1..Len(s) |-> s[((i - 1 + k) % Len(s)) + 1]]

\* number of non-desert hexes among the first i entries of the terrain list
RECURSIVE NonDesertUpTo(_, _)
NonDesertUpTo(res, i) ==
    IF i = 0 THEN 0
    ELSE NonDesertUpTo(res, i - 1) + (IF res[i] = "Desert" THEN 0 ELSE 1)

\* a board generator that takes the token at the position of the hex instead
\* of the next unused token
GenerateHexesByPosition(res, nums) ==
    [h \in LandHexes |->
        LET i == CHOOSE n \in 1..Len(LAND_HEX_COORDS) : LAND_HEX_COORDS[n] = h
        IN  [type |-> res[i],
             numberToken |-> IF res[i] = "Desert" THEN 0 ELSE nums[((i - 1) % Len(nums)) + 1],
             hasRobber |-> (res[i] = "Desert")]]

\* generateRandomBoard: the hexes, given the shuffled terrain and token lists
GenerateHexes(res, nums) ==
    [h \in LandHexes |->
        LET i == CHOOSE n \in 1..Len(LAND_HEX_COORDS) : LAND_HEX_COORDS[n] = h
        IN  [type |-> res[i],
             numberToken |-> IF res[i] = "Desert" THEN 0 ELSE nums[NonDesertUpTo(res, i)],
             hasRobber |-> (res[i] = "Desert")]]

\* generateRandomBoard: robberLocation is the coordinate of the desert
GenerateRobberLocation(res) ==
    LAND_HEX_COORDS[CHOOSE i \in 1..Len(res) : res[i] = "Desert"]

EmptyVertex == [building |-> "None", ownerPlayerId |-> NoPlayer]
EmptyEdge == [hasRoad |-> FALSE, ownerPlayerId |-> NoPlayer]

\* GameManager::createGame: the 25-card deck, in the order it is filled; the
\* order of the cards decides no rule that is stated here
DevCardDeckList ==
    [i \in 1..25 |->
        IF i <= 14 THEN "Knight"
        ELSE IF i <= 19 THEN "VictoryPoint"
        ELSE IF i <= 21 THEN "RoadBuilding"
        ELSE IF i <= 23 THEN "YearOfPlenty"
        ELSE "Monopoly"]

(***************************************************************************)
(* Players.                                                                *)
(***************************************************************************)
Hand(w, b, wh, s, o) == [wood |-> w, brick |-> b, wheat |-> wh, sheep |-> s, ore |-> o]
EmptyHand == Hand(0, 0, 0, 0, 0)

ROAD_COST == Hand(1, 1, 0, 0, 0)
SETTLEMENT_COST == Hand(1, 1, 1, 1, 0)
CITY_COST == Hand(0, 0, 2, 0, 3)
DEV_CARD_COST == Hand(0, 0, 1, 1, 1)

\* canAfford
canAfford(have, cost) == \A r \in Resources : have[r] >= cost[r]

\* a hand built from a function over the resources
MkHand(f) == Hand(f["wood"], f["brick"], f["wheat"], f["sheep"], f["ore"])

\* subtractResources
subtractResources(from, cost) == MkHand([r \in Resources |-> from[r] - cost[r]])

\* the hand with amount n added to resource res
AddTo(hand, res, n) == MkHand([r \in Resources |-> IF r = res THEN hand[r] + n ELSE hand[r]])

\* struct Player as created by handleJoinGame / handleAddAIPlayers; token tells
\* whether the session token of the player was returned to a client
NewPlayer(id, isAI, token) ==
    [id |-> id, isAI |-> isAI, token |-> token, resources |-> EmptyHand, devCards |-> <<>>,
     settlementsRemaining |-> InitialSettlements,
     citiesRemaining |-> InitialCities,
     roadsRemaining |-> InitialRoads,
     knightsPlayed |-> 0, hasLongestRoad |-> FALSE, hasLargestArmy |-> FALSE]

PlayerIds == {i - 1 : i \in 1..Len(players)}

\* Game::getPlayerById (ids are roster positions)
getPlayerById(id) == players[id + 1]

(***************************************************************************)
(* Responses.                                                              *)
(***************************************************************************)
Ok(path, op, p, args) == [ok |-> TRUE, path |-> path, op |-> op, player |-> p, args |-> args]
\* an error reply carries a message only
Fail(path, op, p, args) ==
    [ok |-> FALSE, path |-> "none", op |-> op, player |-> NoPlayer, args |-> <<>>]
NoResponse == [ok |-> TRUE, path |-> "none", op |-> "none", player |-> NoPlayer, args |-> <<>>]

\* struct Game, achievements tracking: the records to beat are 4 roads and
\* 2 knights, and nobody holds a title
NoTitles ==
    [longestRoadLength |-> 4, longestRoadPlayerId |-> NoPlayer,
     largestArmySize |-> 2, largestArmyPlayerId |-> NoPlayer]

\* no executor is registered for the game, nobody holds aiExecutorsMutex;
\* joinable is processingThread.joinable(), processing the number of threads
\* that run processAITurns
NoExecutor ==
    [registryMutex |-> NoThread, created |-> FALSE, status |-> "Idle", shouldStop |-> FALSE,
     joinable |-> FALSE, processing |-> 0]

\* the threads that touch a game: the AI thread of its executor and the
\* per-connection handler threads
AIThread == 0
HandlerThreads == 1..MaxThreads
ThreadIds == {AIThread} \cup HandlerThreads

\* a thread that is not inside a request
Idle == [pc |-> "idle", op |-> "none", p |-> NoPlayer, a |-> <<>>]

(***************************************************************************)
(* Init: the state GameManager::createGame leaves.                         *)
(***************************************************************************)
Init ==
    /\ phase = "WaitingForPlayers"
    /\ currentPlayerIndex = 0
    /\ players = <<>>
    /\ \E k \in 0..MaxShuffle :
          LET res == Rotate(STANDARD_RESOURCES, k)
              nums == Rotate(STANDARD_NUMBERS, MaxShuffle - k)
          IN  /\ hexes = GenerateHexes(res, nums)
              /\ robberLocation = GenerateRobberLocation(res)
    /\ vertices = [k \in BoardKeys |-> EmptyVertex]
    /\ edges = [k \in BoardKeys |-> EmptyEdge]
    /\ devCardDeck = DevCardDeckList
    /\ lastRoll = <<>>
    /\ devCardPlayedThisTurn = FALSE
    /\ tradeOffers = <<>>
    /\ nextTradeId = 0
    /\ achievements = NoTitles
    /\ response = NoResponse
    /\ turnsEnded = 0
    /\ mutex = NoThread
    /\ threads = [t \in ThreadIds |-> Idle]
    /\ executor = NoExecutor


(***************************************************************************)
(* Inputs of the commands.                                                 *)
(***************************************************************************)
\* hex coordinates that commands name: on the board and off the board
InputHexes ==
    LET InputHexList == << <<1, -1>>, <<3, 0>>, <<0, 0>>, <<0, -1>>, <<-1, 0>> >>
    IN  {InputHexList[i] : i \in 1..Min(MaxInputHexes, Len(InputHexList))}
\* <<hexQ, hexR, direction>> as parsed from a request body
InputCoords == {<<h[1], h[2], d>> : h \in InputHexes, d \in (0..MaxInputDir)}
\* player ids a caller may pass: the seats, taken or not
SeatInputs == 0..(MaxSeats - 1)
\* faces the two dice may show: the low faces and the highest one
Die1 == (1..Min(MaxDie1, DieFaces)) \cup {DieFaces}
Die2 == 1..Min(MaxDie2, DieFaces)

(***************************************************************************)
(* Lobby: join, add AI players, start.                                     *)
(***************************************************************************)
\* handleJoinGame, all of which runs under the lock (the roster is kept within
\* MaxSeats)
JoinGameLocked(isAI) ==
    IF phase # "WaitingForPlayers" \/ Len(players) >= maxPlayers
    THEN /\ response' = Fail("http", "join", NoPlayer, <<>>)
         /\ UNCHANGED gameVars
    ELSE /\ Len(players) < MaxSeats
         /\ players' = Append(players, NewPlayer(Len(players), isAI, TRUE))
         /\ response' = Ok("http", "join", Len(players), <<>>)
         /\ UNCHANGED <<phase, currentPlayerIndex, hexes, vertices, edges,
                        robberLocation, devCardDeck, lastRoll,
                        devCardPlayedThisTurn, tradeOffers, nextTradeId, achievements,
                        executor>>

\* handleJoinGame
HandleJoinGame(isAI) ==
    /\ JoinGameLocked(isAI)
    /\ UNCHANGED <<turnsEnded, mutex, threads, achievements, executor>>

\* the roster after handleAddAIPlayers has appended n AI players
RECURSIVE WithAIPlayers(_, _)
WithAIPlayers(ps, n) ==
    IF n = 0 THEN ps
    ELSE WithAIPlayers(Append(ps, NewPlayer(Len(ps), TRUE, FALSE)), n - 1)

\* handleAddAIPlayers, all of which runs under the lock (count < 0 asks to fill
\* the remaining slots)
AddAIPlayersLocked(count) ==
    LET availableSlots == Min(maxPlayers, MaxSeats) - Len(players)
        requestedCount == IF count < 0 THEN availableSlots ELSE count
        addCount == Min(requestedCount, availableSlots)
    IN  IF phase # "WaitingForPlayers" \/ addCount <= 0
        THEN /\ response' = Fail("http", "add-ai", NoPlayer, <<count>>)
             /\ UNCHANGED gameVars
        ELSE /\ players' = WithAIPlayers(players, addCount)
             /\ response' = Ok("http", "add-ai", NoPlayer, <<count>>)
             /\ UNCHANGED <<phase, currentPlayerIndex, hexes, vertices, edges,
                            robberLocation, devCardDeck, lastRoll,
                            devCardPlayedThisTurn, tradeOffers, nextTradeId, achievements,
                            executor>>

\* handleAddAIPlayers
HandleAddAIPlayers(count) ==
    /\ AddAIPlayersLocked(count)
    /\ UNCHANGED <<turnsEnded, mutex, threads, achievements, executor>>

\* getGameContext: the request carries the token of a session, the session's
\* player exists and, if required, has the turn
getGameContext(p, requireCurrentTurn) ==
    /\ p \in PlayerIds
    /\ getPlayerById(p).token
    /\ requireCurrentTurn => currentPlayerIndex = p

\* handleStartGame, the part under the lock
StartGameLocked(p) ==
    IF phase # "WaitingForPlayers" \/ Len(players) < 2
    THEN /\ response' = Fail("http", "start", p, <<>>)
         /\ UNCHANGED gameVars
    ELSE /\ phase' = "Rolling"
         /\ currentPlayerIndex' = 0
         /\ players' = [i \in 1..Len(players) |->
                          [players[i] EXCEPT !.resources =
                              Hand(StartingAmount, StartingAmount, StartingAmount,
                                   StartingAmount, StartingAmount)]]
         /\ response' = Ok("http", "start", p, <<>>)
         /\ UNCHANGED <<hexes, vertices, edges, robberLocation, devCardDeck,
                        lastRoll, devCardPlayedThisTurn, tradeOffers, nextTradeId, achievements,
                        executor>>

\* handleStartGame
HandleStartGame(p) ==
    /\ getGameContext(p, FALSE)
    /\ StartGameLocked(p)
    /\ UNCHANGED <<turnsEnded, mutex, threads, achievements, executor>>

(***************************************************************************)
(* Dice and production.                                                    *)
(***************************************************************************)
\* what one vertex pays player id in resource res on a roll of total:
\* the vertex is looked up under the key <<hex, dir>> of a hex whose token is
\* the roll, which has no robber and which produces res
VertexYield(k, id, res, total) ==
    LET hex == hexes[<<k[1], k[2]>>]
    IN  IF /\ hex.numberToken = total
           /\ ~hex.hasRobber
           /\ hexTypeToResource(hex.type) = res
           /\ vertices[k].ownerPlayerId = id
        THEN (IF vertices[k].building = "City" THEN 2 ELSE 1)
        ELSE 0

RECURSIVE SumYield(_, _, _, _)
SumYield(ks, id, res, total) ==
    IF ks = {} THEN 0
    ELSE LET k == CHOOSE x \in ks : TRUE
         IN  VertexYield(k, id, res, total) + SumYield(ks \ {k}, id, res, total)

\* the production loop of a roll: every player's hand after it
DistributeResources(total) ==
    [i \in 1..Len(players) |->
        [players[i] EXCEPT !.resources =
            MkHand([r \in Resources |-> @[r] + SumYield({k \in BoardKeys : vertices[k].ownerPlayerId >= 0},
                                                            i - 1, r, total)])]]

\* a roll that treats a total of seven like any other total
RollDiceSevenProduces(path, p, d1, d2) ==
    IF phase # "Rolling"
    THEN /\ response' = Fail(path, "roll_dice", p, <<d1, d2>>)
         /\ UNCHANGED gameVars
    ELSE /\ lastRoll' = <<d1, d2>>
         /\ response' = Ok(path, "roll_dice", p, <<d1, d2>>)
         /\ players' = DistributeResources(d1 + d2)
         /\ phase' = "MainTurn"
         /\ UNCHANGED <<currentPlayerIndex, hexes, vertices, edges, robberLocation,
                        devCardDeck, devCardPlayedThisTurn, tradeOffers, nextTradeId, achievements,
                        executor>>

\* a roll that runs the production loop (handleRollDice and the AI thread)
RollDice(path, p, d1, d2) ==
    IF phase # "Rolling"
    THEN /\ response' = Fail(path, "roll_dice", p, <<d1, d2>>)
         /\ UNCHANGED gameVars
    ELSE /\ lastRoll' = <<d1, d2>>
         /\ response' = Ok(path, "roll_dice", p, <<d1, d2>>)
         /\ IF d1 + d2 = RobberTotal
            THEN /\ phase' = "Robber"
                 /\ UNCHANGED players
            ELSE /\ players' = DistributeResources(d1 + d2)
                 /\ phase' = "MainTurn"
         /\ UNCHANGED <<currentPlayerIndex, hexes, vertices, edges, robberLocation,
                        devCardDeck, devCardPlayedThisTurn, tradeOffers, nextTradeId, achievements,
                        executor>>

\* the reply of a handler whose getGameContext reports "Not your turn"
NotYourTurn(path, op, p, args) ==
    /\ response' = Fail(path, op, p, args)
    /\ UNCHANGED gameVars

\* handleRollDice
HandleRollDice(p, d1, d2) ==
    /\ p \in PlayerIds
    /\ IF getGameContext(p, TRUE)
       THEN RollDice("http", p, d1, d2)
       ELSE NotYourTurn("http", "roll_dice", p, <<d1, d2>>)
    /\ UNCHANGED <<turnsEnded, mutex, threads, achievements, executor>>

(***************************************************************************)
(* HTTP purchase, trade and end-turn handlers (server.cpp).                *)
(***************************************************************************)
\* the roster with one player's record replaced
WithPlayer(id, rec) == [players EXCEPT ![id + 1] = rec]

\* handleBuyRoad, the part under the lock: pays and takes a road from the pool
BuyRoadLocked(p) ==
    LET me == getPlayerById(p)
    IN  IF \/ phase # "MainTurn"
           \/ ~canAfford(me.resources, ROAD_COST)
           \/ me.roadsRemaining <= 0
        THEN /\ response' = Fail("http", "build_road", p, <<>>)
             /\ UNCHANGED gameVars
        ELSE /\ players' = WithPlayer(p, [me EXCEPT
                              !.resources = subtractResources(@, ROAD_COST),
                              !.roadsRemaining = @ - 1])
             /\ response' = Ok("http", "build_road", p, <<>>)
             /\ UNCHANGED <<phase, currentPlayerIndex, hexes, vertices, edges,
                            robberLocation, devCardDeck, lastRoll,
                            devCardPlayedThisTurn, tradeOffers, nextTradeId, achievements,
                            executor>>

\* handleBuySettlement, the part under the lock
BuySettlementLocked(p) ==
    LET me == getPlayerById(p)
    IN  IF \/ phase # "MainTurn"
           \/ ~canAfford(me.resources, SETTLEMENT_COST)
           \/ me.settlementsRemaining <= 0
        THEN /\ response' = Fail("http", "build_settlement", p, <<>>)
             /\ UNCHANGED gameVars
        ELSE /\ players' = WithPlayer(p, [me EXCEPT
                              !.resources = subtractResources(@, SETTLEMENT_COST),
                              !.settlementsRemaining = @ - 1])
             /\ response' = Ok("http", "build_settlement", p, <<>>)
             /\ UNCHANGED <<phase, currentPlayerIndex, hexes, vertices, edges,
                            robberLocation, devCardDeck, lastRoll,
                            devCardPlayedThisTurn, tradeOffers, nextTradeId, achievements,
                            executor>>

\* handleBuyCity, the part under the lock
BuyCityLocked(p) ==
    LET me == getPlayerById(p)
    IN  IF \/ phase # "MainTurn"
           \/ ~canAfford(me.resources, CITY_COST)
           \/ me.citiesRemaining <= 0
        THEN /\ response' = Fail("http", "build_city", p, <<>>)
             /\ UNCHANGED gameVars
        ELSE /\ players' = WithPlayer(p, [me EXCEPT
                              !.resources = subtractResources(@, CITY_COST),
                              !.citiesRemaining = @ - 1,
                              !.settlementsRemaining = @ + 1])
             /\ response' = Ok("http", "build_city", p, <<>>)
             /\ UNCHANGED <<phase, currentPlayerIndex, hexes, vertices, edges,
                            robberLocation, devCardDeck, lastRoll,
                            devCardPlayedThisTurn, tradeOffers, nextTradeId, achievements,
                            executor>>

\* buying a development card with the card left on the pile
BuyDevCardKeepsPile(path, p) ==
    LET me == getPlayerById(p)
    IN  IF \/ phase # "MainTurn"
           \/ ~canAfford(me.resources, DEV_CARD_COST)
           \/ Len(devCardDeck) = 0
        THEN /\ response' = Fail(path, "buy_dev_card", p, <<>>)
             /\ UNCHANGED gameVars
        ELSE /\ players' = WithPlayer(p, [me EXCEPT
                              !.resources = subtractResources(@, DEV_CARD_COST),
                              !.devCards = Append(@, devCardDeck[Len(devCardDeck)])])
             /\ response' = Ok(path, "buy_dev_card", p, <<devCardDeck[Len(devCardDeck)]>>)
             /\ UNCHANGED <<phase, currentPlayerIndex, hexes, vertices, edges,
                            robberLocation, devCardDeck, lastRoll, devCardPlayedThisTurn,
                            tradeOffers, nextTradeId, achievements, executor>>

\* buying a development card: the common body of the three code paths
BuyDevCard(path, p) ==
    LET me == getPlayerById(p)
    IN  IF \/ phase # "MainTurn"
           \/ ~canAfford(me.resources, DEV_CARD_COST)
           \/ Len(devCardDeck) = 0
        THEN /\ response' = Fail(path, "buy_dev_card", p, <<>>)
             /\ UNCHANGED gameVars
        ELSE /\ players' = WithPlayer(p, [me EXCEPT
                              !.resources = subtractResources(@, DEV_CARD_COST),
                              !.devCards = Append(@, devCardDeck[Len(devCardDeck)])])
             /\ devCardDeck' = SubSeq(devCardDeck, 1, Len(devCardDeck) - 1)
             /\ response' = Ok(path, "buy_dev_card", p, <<devCardDeck[Len(devCardDeck)]>>)
             /\ UNCHANGED <<phase, currentPlayerIndex, hexes, vertices, edges,
                            robberLocation, lastRoll, devCardPlayedThisTurn,
                            tradeOffers, nextTradeId, achievements, executor>>

\* names a request may give for a resource; "none" is anything stringToResource rejects
ResourceNames == Resources \cup {"none"}

\* handleBankTrade, the part under the lock
BankTradeLocked(p, give, receive) ==
    LET me == getPlayerById(p)
    IN  IF \/ phase # "MainTurn"
           \/ give = "none" \/ receive = "none"
           \/ give = receive
           \/ me.resources[give] < BankRatio
        THEN /\ response' = Fail("http", "bank_trade", p, <<give, receive>>)
             /\ UNCHANGED gameVars
        ELSE /\ players' = WithPlayer(p, [me EXCEPT
                              !.resources = AddTo(AddTo(@, give, -BankRatio), receive, 1)])
             /\ response' = Ok("http", "bank_trade", p, <<give, receive>>)
             /\ UNCHANGED <<phase, currentPlayerIndex, hexes, vertices, edges,
                            robberLocation, devCardDeck, lastRoll,
                            devCardPlayedThisTurn, tradeOffers, nextTradeId, achievements,
                            executor>>

\* ending a turn with the seat left where it is
EndTurnSameSeat(path, p) ==
    IF phase # "MainTurn"
    THEN /\ response' = Fail(path, "end_turn", p, <<>>)
         /\ UNCHANGED <<gameVars, turnsEnded, executor>>
    ELSE /\ turnsEnded < MaxTurns
         /\ turnsEnded' = turnsEnded + 1
         /\ phase' = "Rolling"
         /\ devCardPlayedThisTurn' = FALSE
         /\ response' = Ok(path, "end_turn", p, <<>>)
         /\ UNCHANGED <<currentPlayerIndex, players, hexes, vertices, edges,
                        robberLocation, devCardDeck, lastRoll, tradeOffers,
                        nextTradeId, achievements, executor>>

\* ending a turn: the common body of the three code paths
EndTurn(path, p) ==
    IF phase # "MainTurn"
    THEN /\ response' = Fail(path, "end_turn", p, <<>>)
         /\ UNCHANGED <<gameVars, turnsEnded, executor>>
    ELSE /\ turnsEnded < MaxTurns
         /\ turnsEnded' = turnsEnded + 1
         /\ currentPlayerIndex' = (currentPlayerIndex + 1) % Len(players)
         /\ phase' = "Rolling"
         /\ devCardPlayedThisTurn' = FALSE
         /\ response' = Ok(path, "end_turn", p, <<>>)
         /\ UNCHANGED <<players, hexes, vertices, edges, robberLocation,
                        devCardDeck, lastRoll, tradeOffers, nextTradeId, achievements,
                        executor>>

\* handleBuyRoad
HandleBuyRoad(p) ==
    /\ p \in PlayerIds
    /\ IF getGameContext(p, TRUE)
       THEN BuyRoadLocked(p)
       ELSE NotYourTurn("http", "build_road", p, <<>>)
    /\ UNCHANGED <<turnsEnded, mutex, threads, achievements, executor>>

\* handleBuySettlement
HandleBuySettlement(p) ==
    /\ p \in PlayerIds
    /\ IF getGameContext(p, TRUE)
       THEN BuySettlementLocked(p)
       ELSE NotYourTurn("http", "build_settlement", p, <<>>)
    /\ UNCHANGED <<turnsEnded, mutex, threads, achievements, executor>>

\* handleBuyCity
HandleBuyCity(p) ==
    /\ p \in PlayerIds
    /\ IF getGameContext(p, TRUE)
       THEN BuyCityLocked(p)
       ELSE NotYourTurn("http", "build_city", p, <<>>)
    /\ UNCHANGED <<turnsEnded, mutex, threads, achievements, executor>>

\* handleBuyDevCard
HandleBuyDevCard(p) ==
    /\ p \in PlayerIds
    /\ IF getGameContext(p, TRUE)
       THEN BuyDevCard("http", p)
       ELSE NotYourTurn("http", "buy_dev_card", p, <<>>)
    /\ UNCHANGED <<turnsEnded, mutex, threads, achievements, executor>>

\* handleBankTrade
HandleBankTrade(p, give, receive) ==
    /\ p \in PlayerIds
    /\ IF getGameContext(p, TRUE)
       THEN BankTradeLocked(p, give, receive)
       ELSE NotYourTurn("http", "bank_trade", p, <<give, receive>>)
    /\ UNCHANGED <<turnsEnded, mutex, threads, achievements, executor>>

\* handleEndTurn
HandleEndTurn(p) ==
    /\ p \in PlayerIds
    /\ IF getGameContext(p, TRUE)
       THEN EndTurn("http", p)
       ELSE NotYourTurn("http", "end_turn", p, <<>>) /\ UNCHANGED turnsEnded
    /\ UNCHANGED <<mutex, threads, achievements, executor>>

(***************************************************************************)
(* Tools shared by ai/execute (handleExecuteAITool) and by the AI thread   *)
(* (AITurnExecutor::executeToolCall).                                      *)
(***************************************************************************)
\* build_road: pays, takes a road from the pool, then marks the edge if the
\* board has the key
BuildRoad(path, p, c) ==
    LET me == getPlayerById(p)
    IN  IF \/ phase # "MainTurn"
           \/ ~canAfford(me.resources, ROAD_COST)
           \/ me.roadsRemaining <= 0
        THEN /\ response' = Fail(path, "build_road", p, c)
             /\ UNCHANGED gameVars
        ELSE /\ players' = WithPlayer(p, [me EXCEPT
                              !.resources = subtractResources(@, ROAD_COST),
                              !.roadsRemaining = @ - 1])
             /\ edges' = IF c \in BoardKeys
                         THEN [edges EXCEPT ![c] = [hasRoad |-> TRUE, ownerPlayerId |-> p]]
                         ELSE edges
             /\ response' = Ok(path, "build_road", p, c)
             /\ UNCHANGED <<phase, currentPlayerIndex, hexes, vertices,
                            robberLocation, devCardDeck, lastRoll,
                            devCardPlayedThisTurn, tradeOffers, nextTradeId, achievements,
                            executor>>

\* build_settlement
BuildSettlement(path, p, c) ==
    LET me == getPlayerById(p)
    IN  IF \/ phase # "MainTurn"
           \/ ~canAfford(me.resources, SETTLEMENT_COST)
           \/ me.settlementsRemaining <= 0
        THEN /\ response' = Fail(path, "build_settlement", p, c)
             /\ UNCHANGED gameVars
        ELSE /\ players' = WithPlayer(p, [me EXCEPT
                              !.resources = subtractResources(@, SETTLEMENT_COST),
                              !.settlementsRemaining = @ - 1])
             /\ vertices' = IF c \in BoardKeys
                            THEN [vertices EXCEPT ![c] =
                                     [building |-> "Settlement", ownerPlayerId |-> p]]
                            ELSE vertices
             /\ response' = Ok(path, "build_settlement", p, c)
             /\ UNCHANGED <<phase, currentPlayerIndex, hexes, edges,
                            robberLocation, devCardDeck, lastRoll,
                            devCardPlayedThisTurn, tradeOffers, nextTradeId, achievements,
                            executor>>

\* build_city
BuildCity(path, p, c) ==
    LET me == getPlayerById(p)
    IN  IF \/ phase # "MainTurn"
           \/ ~canAfford(me.resources, CITY_COST)
           \/ me.citiesRemaining <= 0
           \/ c \notin BoardKeys
           \/ vertices[c].building # "Settlement"
           \/ vertices[c].ownerPlayerId # p
        THEN /\ response' = Fail(path, "build_city", p, c)
             /\ UNCHANGED gameVars
        ELSE /\ players' = WithPlayer(p, [me EXCEPT
                              !.resources = subtractResources(@, CITY_COST),
                              !.citiesRemaining = @ - 1,
                              !.settlementsRemaining = @ + 1])
             /\ vertices' = [vertices EXCEPT ![c].building = "City"]
             /\ response' = Ok(path, "build_city", p, c)
             /\ UNCHANGED <<phase, currentPlayerIndex, hexes, edges,
                            robberLocation, devCardDeck, lastRoll,
                            devCardPlayedThisTurn, tradeOffers, nextTradeId, achievements,
                            executor>>

\* a bank trade that takes one unit less than the ratio
BankTradeShort(path, p, give, receive) ==
    LET me == getPlayerById(p)
    IN  IF \/ phase # "MainTurn"
           \/ give = "none" \/ receive = "none"
           \/ me.resources[give] < BankRatio
        THEN /\ response' = Fail(path, "bank_trade", p, <<give, receive>>)
             /\ UNCHANGED gameVars
        ELSE /\ players' = WithPlayer(p, [me EXCEPT
                              !.resources = AddTo(AddTo(@, give, 1 - BankRatio), receive, 1)])
             /\ response' = Ok(path, "bank_trade", p, <<give, receive>>)
             /\ UNCHANGED <<phase, currentPlayerIndex, hexes, vertices, edges,
                            robberLocation, devCardDeck, lastRoll,
                            devCardPlayedThisTurn, tradeOffers, nextTradeId, achievements,
                            executor>>

\* bank_trade
BankTrade(path, p, give, receive) ==
    LET me == getPlayerById(p)
    IN  IF \/ phase # "MainTurn"
           \/ give = "none" \/ receive = "none"
           \/ me.resources[give] < BankRatio
        THEN /\ response' = Fail(path, "bank_trade", p, <<give, receive>>)
             /\ UNCHANGED gameVars
        ELSE /\ players' = WithPlayer(p, [me EXCEPT
                              !.resources = AddTo(AddTo(@, give, -BankRatio), receive, 1)])
             /\ response' = Ok(path, "bank_trade", p, <<give, receive>>)
             /\ UNCHANGED <<phase, currentPlayerIndex, hexes, vertices, edges,
                            robberLocation, devCardDeck, lastRoll,
                            devCardPlayedThisTurn, tradeOffers, nextTradeId, achievements,
                            executor>>

\* move_robber with the stolen unit taken from the victim and given to nobody
MoveRobberTakes(path, p, newLoc, stealFrom, selfAllowed) ==
    IF phase # "Robber"
    THEN /\ response' = Fail(path, "move_robber", p, <<newLoc, stealFrom>>)
         /\ UNCHANGED gameVars
    ELSE /\ LET cleared == IF robberLocation \in LandHexes
                            THEN [hexes EXCEPT ![robberLocation].hasRobber = FALSE]
                            ELSE hexes
            IN  hexes' = IF newLoc \in LandHexes
                         THEN [cleared EXCEPT ![newLoc].hasRobber = TRUE]
                         ELSE cleared
         /\ robberLocation' = newLoc
         /\ IF /\ stealFrom >= 0
               /\ stealFrom < Len(players)
               /\ (selfAllowed \/ stealFrom # p)
               /\ LET h == getPlayerById(stealFrom).resources
                  IN  /\ h.wood + h.brick + h.wheat + h.sheep + h.ore > 0
                      /\ \E r \in Resources : h[r] > 0
            THEN LET available ==
                         SelectSeq(<<"wood", "brick", "wheat", "sheep", "ore">>,
                                   LAMBDA r : getPlayerById(stealFrom).resources[r] > 0)
                 IN  \E pick \in 0..Min(MaxPick, Len(available) - 1) :
                        players' = [players EXCEPT ![stealFrom + 1].resources =
                                       AddTo(@, available[pick + 1], -1)]
            ELSE UNCHANGED players
         /\ phase' = "MainTurn"
         /\ response' = Ok(path, "move_robber", p, <<newLoc, stealFrom>>)
         /\ UNCHANGED <<currentPlayerIndex, vertices, edges, devCardDeck, lastRoll,
                        devCardPlayedThisTurn, tradeOffers, nextTradeId, achievements,
                        executor>>

\* move_robber; selfAllowed tells whether the mover may name itself as victim;
\* the random index into the available resources is drawn from 0..MaxPick
MoveRobber(path, p, newLoc, stealFrom, selfAllowed) ==
    IF phase # "Robber"
    THEN /\ response' = Fail(path, "move_robber", p, <<newLoc, stealFrom>>)
         /\ UNCHANGED gameVars
    ELSE /\ LET cleared == IF robberLocation \in LandHexes
                            THEN [hexes EXCEPT ![robberLocation].hasRobber = FALSE]
                            ELSE hexes
            IN  hexes' = IF newLoc \in LandHexes
                         THEN [cleared EXCEPT ![newLoc].hasRobber = TRUE]
                         ELSE cleared
         /\ robberLocation' = newLoc
         /\ IF /\ stealFrom >= 0
               /\ stealFrom < Len(players)
               /\ (selfAllowed \/ stealFrom # p)
               /\ LET h == getPlayerById(stealFrom).resources
                  IN  /\ h.wood + h.brick + h.wheat + h.sheep + h.ore > 0
                      /\ \E r \in Resources : h[r] > 0
            THEN LET available ==
                         SelectSeq(<<"wood", "brick", "wheat", "sheep", "ore">>,
                                   LAMBDA r : getPlayerById(stealFrom).resources[r] > 0)
                 IN  \E pick \in 0..Min(MaxPick, Len(available) - 1) :
                        LET taken == [players EXCEPT ![stealFrom + 1].resources =
                                         AddTo(@, available[pick + 1], -1)]
                        IN  players' = [taken EXCEPT ![p + 1].resources =
                                           AddTo(@, available[pick + 1], 1)]
            ELSE UNCHANGED players
         /\ phase' = "MainTurn"
         /\ response' = Ok(path, "move_robber", p, <<newLoc, stealFrom>>)
         /\ UNCHANGED <<currentPlayerIndex, vertices, edges, devCardDeck, lastRoll,
                        devCardPlayedThisTurn, tradeOffers, nextTradeId, achievements,
                        executor>>

(***************************************************************************)
(* ai/execute: handleExecuteAITool (server.cpp).                           *)
(***************************************************************************)
\* roll_dice of ai/execute: sets the phase, runs no production loop
ExecuteRollDice(p, d1, d2) ==
    IF phase # "Rolling"
    THEN /\ response' = Fail("ai/execute", "roll_dice", p, <<d1, d2>>)
         /\ UNCHANGED gameVars
    ELSE /\ lastRoll' = <<d1, d2>>
         /\ response' = Ok("ai/execute", "roll_dice", p, <<d1, d2>>)
         /\ phase' = IF d1 + d2 = RobberTotal THEN "Robber" ELSE "MainTurn"
         /\ UNCHANGED <<currentPlayerIndex, players, hexes, vertices, edges,
                        robberLocation, devCardDeck, devCardPlayedThisTurn,
                        tradeOffers, nextTradeId, achievements, executor>>

\* the tool names of ai/execute
ExecuteTools == {"roll_dice", "end_turn", "build_road", "build_settlement",
                 "build_city", "buy_dev_card", "bank_trade", "move_robber"}

\* handleExecuteAITool, the checks before the lock
ExecuteAIToolChecks(p, tool) ==
    /\ getGameContext(p, TRUE)
    /\ getPlayerById(p).isAI
    /\ tool \in ExecuteTools

\* handleExecuteAITool, the part under the lock
ExecuteAIToolLocked(p, tool, a) ==
    CASE tool = "roll_dice" ->
            ExecuteRollDice(p, a[1], a[2]) /\ UNCHANGED turnsEnded
      [] tool = "end_turn" -> EndTurn("ai/execute", p)
      [] tool = "build_road" ->
            BuildRoad("ai/execute", p, a) /\ UNCHANGED turnsEnded
      [] tool = "build_settlement" ->
            BuildSettlement("ai/execute", p, a) /\ UNCHANGED turnsEnded
      [] tool = "build_city" ->
            BuildCity("ai/execute", p, a) /\ UNCHANGED turnsEnded
      [] tool = "buy_dev_card" ->
            BuyDevCard("ai/execute", p) /\ UNCHANGED turnsEnded
      [] tool = "bank_trade" ->
            BankTrade("ai/execute", p, a[1], a[2]) /\ UNCHANGED turnsEnded
      [] tool = "move_robber" ->
            MoveRobber("ai/execute", p, a[1], a[2], TRUE) /\ UNCHANGED turnsEnded

\* handleExecuteAITool
HandleExecuteAITool(p, tool, a) ==
    /\ p \in PlayerIds
    /\ IF ExecuteAIToolChecks(p, tool)
       THEN ExecuteAIToolLocked(p, tool, a)
       ELSE /\ response' = Fail("ai/execute", tool, p, a)
            /\ UNCHANGED <<gameVars, turnsEnded, executor>>
    /\ UNCHANGED <<mutex, threads, achievements, executor>>


\* the arguments a request may carry for a tool
ToolArgs(tool) ==
    CASE tool = "roll_dice" -> {<<d1, d2>> : d1 \in Die1, d2 \in Die2}
      [] tool \in {"build_road", "build_settlement", "build_city"} -> InputCoords
      [] tool = "bank_trade" -> {<<g, r>> : g \in ResourceNames, r \in ResourceNames}
      [] tool = "move_robber" -> {<<h, s>> : h \in InputHexes, s \in (-1..MaxSeats)}
      [] OTHER -> {<<>>}

(***************************************************************************)
(* Trade tools of the AI thread (executeToolCall, ai_agent.cpp).           *)
(***************************************************************************)
\* have covers want, resource by resource
Covers(have, want) == \A r \in Resources : have[r] >= want[r]

NewTrade(id, from, to, offering, requesting) ==
    [id |-> id, fromPlayerId |-> from, toPlayerId |-> to,
     offering |-> offering, requesting |-> requesting, isActive |-> TRUE,
     acceptedByPlayerIds |-> <<>>, rejectedByPlayerIds |-> <<>>]

\* position in tradeOffers of the first offer with this id, 0 when there is none
FindTrade(tradeId) ==
    IF \E i \in 1..Len(tradeOffers) : tradeOffers[i].id = tradeId
    THEN CHOOSE i \in 1..Len(tradeOffers) :
             /\ tradeOffers[i].id = tradeId
             /\ \A j \in 1..(i - 1) : tradeOffers[j].id # tradeId
    ELSE 0

\* propose_trade (offers are kept within MaxTrades)
ProposeTrade(p, to, offering, requesting) ==
    IF ~Covers(getPlayerById(p).resources, offering)
    THEN /\ response' = Fail("executor", "propose_trade", p, <<>>)
         /\ UNCHANGED gameVars
    ELSE /\ Len(tradeOffers) < MaxTrades
         /\ tradeOffers' = Append(tradeOffers, NewTrade(nextTradeId, p, to, offering, requesting))
         /\ nextTradeId' = nextTradeId + 1
         /\ response' = Ok("executor", "propose_trade", p, <<nextTradeId>>)
         /\ UNCHANGED <<phase, currentPlayerIndex, players, hexes, vertices, edges,
                        robberLocation, devCardDeck, lastRoll, devCardPlayedThisTurn,
                            achievements, executor>>

\* the roster after the accepter and the proposer exchanged the two hands
ExecuteTrade(accepter, t) ==
    LET give == [players EXCEPT ![t.fromPlayerId + 1].resources =
                    MkHand([r \in Resources |-> @[r] - t.offering[r] + t.requesting[r]])]
    IN  [give EXCEPT ![accepter + 1].resources =
            MkHand([r \in Resources |-> @[r] + t.offering[r] - t.requesting[r]])]

\* accept_trade
AcceptTrade(p, tradeId) ==
    LET i == FindTrade(tradeId)
        t == tradeOffers[i]
    IN  IF \/ i = 0
           \/ ~t.isActive
           \/ t.fromPlayerId = p
           \/ ~Covers(getPlayerById(p).resources, t.requesting)
        THEN /\ response' = Fail("executor", "accept_trade", p, <<tradeId>>)
             /\ UNCHANGED gameVars
        ELSE IF \/ t.fromPlayerId \notin PlayerIds
                \/ ~Covers(getPlayerById(t.fromPlayerId).resources, t.offering)
        THEN /\ tradeOffers' = [tradeOffers EXCEPT ![i].isActive = FALSE]
             /\ response' = Fail("executor", "accept_trade", p, <<tradeId>>)
             /\ UNCHANGED <<phase, currentPlayerIndex, players, hexes, vertices, edges,
                            robberLocation, devCardDeck, lastRoll,
                            devCardPlayedThisTurn, nextTradeId, achievements,
                            executor>>
        ELSE /\ players' = ExecuteTrade(p, t)
             /\ tradeOffers' = [tradeOffers EXCEPT
                                   ![i].isActive = FALSE,
                                   ![i].acceptedByPlayerIds = Append(@, p)]
             /\ response' = Ok("executor", "accept_trade", p, <<tradeId>>)
             /\ UNCHANGED <<phase, currentPlayerIndex, hexes, vertices, edges,
                            robberLocation, devCardDeck, lastRoll,
                            devCardPlayedThisTurn, nextTradeId, achievements,
                            executor>>

\* reject_trade (the rejection list is kept within MaxRejects)
RejectTrade(p, tradeId) ==
    LET i == FindTrade(tradeId)
    IN  IF i = 0
        THEN /\ response' = Fail("executor", "reject_trade", p, <<tradeId>>)
             /\ UNCHANGED gameVars
        ELSE /\ Len(tradeOffers[i].rejectedByPlayerIds) < MaxRejects
             /\ tradeOffers' = [tradeOffers EXCEPT ![i].rejectedByPlayerIds = Append(@, p)]
             /\ response' = Ok("executor", "reject_trade", p, <<tradeId>>)
             /\ UNCHANGED <<phase, currentPlayerIndex, players, hexes, vertices, edges,
                            robberLocation, devCardDeck, lastRoll,
                            devCardPlayedThisTurn, nextTradeId, achievements,
                            executor>>

\* counter_trade (offers are kept within MaxTrades)
CounterTrade(p, originalTradeId, offering, requesting) ==
    LET i == FindTrade(originalTradeId)
    IN  IF i = 0 \/ ~Covers(getPlayerById(p).resources, offering)
        THEN /\ response' = Fail("executor", "counter_trade", p, <<originalTradeId>>)
             /\ UNCHANGED gameVars
        ELSE /\ Len(tradeOffers) < MaxTrades
             /\ tradeOffers' = Append(tradeOffers,
                    NewTrade(nextTradeId, p, tradeOffers[i].fromPlayerId, offering, requesting))
             /\ nextTradeId' = nextTradeId + 1
             /\ response' = Ok("executor", "counter_trade", p, <<nextTradeId>>)
             /\ UNCHANGED <<phase, currentPlayerIndex, players, hexes, vertices, edges,
                            robberLocation, devCardDeck, lastRoll, devCardPlayedThisTurn,
                            achievements, executor>>

(***************************************************************************)
(* The AI thread: AITurnExecutor (ai_agent.cpp).                           *)
(***************************************************************************)
\* hasAIPendingTurns
hasAIPendingTurns ==
    /\ Len(players) > 0
    /\ phase \notin {"WaitingForPlayers", "Finished"}
    /\ currentPlayerIndex \in PlayerIds
    /\ getPlayerById(currentPlayerIndex).isAI

\* executeToolCall: the tool the language model chose, run for player p
executeToolCall(p, tool, a) ==
    CASE tool = "roll_dice" ->
            RollDice("executor", p, a[1], a[2]) /\ UNCHANGED turnsEnded
      [] tool = "end_turn" -> EndTurn("executor", p)
      [] tool = "build_road" -> BuildRoad("executor", p, a) /\ UNCHANGED turnsEnded
      [] tool = "build_settlement" ->
            BuildSettlement("executor", p, a) /\ UNCHANGED turnsEnded
      [] tool = "build_city" -> BuildCity("executor", p, a) /\ UNCHANGED turnsEnded
      [] tool = "buy_dev_card" -> BuyDevCard("executor", p) /\ UNCHANGED turnsEnded
      [] tool = "bank_trade" ->
            BankTrade("executor", p, a[1], a[2]) /\ UNCHANGED turnsEnded
      [] tool = "move_robber" ->
            MoveRobber("executor", p, a[1], a[2], FALSE) /\ UNCHANGED turnsEnded
      [] tool = "propose_trade" ->
            ProposeTrade(p, a[1], a[2], a[3]) /\ UNCHANGED turnsEnded
      [] tool = "accept_trade" -> AcceptTrade(p, a) /\ UNCHANGED turnsEnded
      [] tool = "reject_trade" -> RejectTrade(p, a) /\ UNCHANGED turnsEnded
      [] tool = "counter_trade" ->
            CounterTrade(p, a[1], a[2], a[3]) /\ UNCHANGED turnsEnded
      [] tool = "send_chat" ->
            \* a[1]: the message is not empty; the chat log is not part of the model
            /\ response' = IF a[1] THEN Ok("executor", tool, p, a)
                           ELSE Fail("executor", tool, p, a)
            /\ UNCHANGED <<gameVars, turnsEnded, executor>>
      [] OTHER -> /\ response' = [Fail("executor", tool, p, a) EXCEPT
                                     !.args = <<"Unknown tool">>]
                  /\ UNCHANGED <<gameVars, turnsEnded, executor>>

\* one pass of the loop of processSingleAITurn for the current AI player
ProcessSingleAITurn(tool, a) ==
    /\ hasAIPendingTurns
    /\ executeToolCall(currentPlayerIndex, tool, a)
    /\ UNCHANGED <<mutex, threads, achievements, executor>>

\* the arguments the language model may give for a tool
ExecutorArgs(tool) ==
    CASE tool = "propose_trade" ->
            {<<to, o, r>> : to \in (NoPlayer..(MaxTradeTarget - 1)), o \in {Hand(0, 0, 0, 0, n) : n \in 0..MaxTradeAmount}, r \in {Hand(n, 0, 0, 0, 0) : n \in 0..MaxTradeAmount}}
      [] tool \in {"accept_trade", "reject_trade"} -> (0..MaxTrades)
      [] tool = "counter_trade" ->
            {<<id, o, r>> : id \in (0..MaxTrades), o \in {Hand(0, 0, 0, 0, n) : n \in 0..MaxTradeAmount}, r \in {Hand(n, 0, 0, 0, 0) : n \in 0..MaxTradeAmount}}
      [] tool = "send_chat" -> {<<TRUE>>, <<FALSE>>}
      [] OTHER -> ToolArgs(tool)

(***************************************************************************)
(* Placement rules and the setup phase (game_logic.cpp).                   *)
(***************************************************************************)
\* a vertex key the board has and that carries a building
Built(v) == v \in BoardKeys /\ vertices[v].building # "None"

\* an edge key the board has and that carries a road of the player
RoadOf(e, playerId) ==
    e \in BoardKeys /\ edges[e].hasRoad /\ edges[e].ownerPlayerId = playerId

\* isVertexDistanceValid
isVertexDistanceValid(v) ==
    /\ ~Built(v)
    /\ \A i \in 1..3 : ~Built(getAdjacentVertices(v)[i])

\* isRoadConnectedToNetwork
isRoadConnectedToNetwork(playerId, e) ==
    \E j \in 1..2 :
        LET v == getVerticesOfEdge(e)[j]
        IN  \/ /\ v \in BoardKeys
               /\ vertices[v].ownerPlayerId = playerId
               /\ vertices[v].building # "None"
            \/ \E i \in 1..3 : RoadOf(getEdgesAtVertex(v)[i], playerId)

\* getValidSettlementLocations
getValidSettlementLocations(playerId) ==
    {v \in BoardKeys :
        /\ vertices[v].building = "None"
        /\ isVertexDistanceValid(v)
        /\ \E i \in 1..3 : RoadOf(getEdgesAtVertex(v)[i], playerId)}

\* getValidRoadLocations
getValidRoadLocations(playerId) ==
    {e \in BoardKeys : ~edges[e].hasRoad /\ isRoadConnectedToNetwork(playerId, e)}

\* getValidCityLocations
getValidCityLocations(playerId) ==
    {v \in BoardKeys :
        vertices[v].ownerPlayerId = playerId /\ vertices[v].building = "Settlement"}

\* the test by which getValidSetupSettlementLocations keeps a vertex of the board
ValidSetupSettlement(v) ==
    /\ vertices[v].building = "None"
    /\ isVertexDistanceValid(v)
    /\ <<v[1], v[2]>> \in LandHexes
    /\ hexes[<<v[1], v[2]>>].type # "Ocean"

\* getValidSetupSettlementLocations
getValidSetupSettlementLocations == {v \in BoardKeys : ValidSetupSettlement(v)}

\* getValidSetupRoadLocations
getValidSetupRoadLocations(settlement) ==
    {e \in {getEdgesAtVertex(settlement)[i] : i \in 1..3} :
        e \in BoardKeys /\ ~edges[e].hasRoad}

\* placeSetupSettlement: the location is in the list of valid locations exactly
\* when it is a key of the board that passes the list's test
placeSetupSettlement(playerId, location) ==
    /\ IF \/ playerId \notin PlayerIds
          \/ location \notin BoardKeys
          \/ ~ValidSetupSettlement(location)
       THEN /\ response' = Fail("core", "placeSetupSettlement", playerId, location)
            /\ UNCHANGED gameVars
       ELSE /\ vertices' = [vertices EXCEPT ![location] =
                               [building |-> "Settlement", ownerPlayerId |-> playerId]]
            /\ players' = [players EXCEPT ![playerId + 1].settlementsRemaining = @ - 1]
            /\ response' = Ok("core", "placeSetupSettlement", playerId, location)
            /\ UNCHANGED <<phase, currentPlayerIndex, hexes, edges, robberLocation,
                           devCardDeck, lastRoll, devCardPlayedThisTurn,
                           tradeOffers, nextTradeId, achievements, executor>>
    /\ UNCHANGED <<turnsEnded, mutex, threads, achievements, executor>>

\* placeSetupRoad
placeSetupRoad(playerId, location) ==
    /\ IF \/ playerId \notin PlayerIds
          \/ location \notin BoardKeys
          \/ edges[location].hasRoad
       THEN /\ response' = Fail("core", "placeSetupRoad", playerId, location)
            /\ UNCHANGED gameVars
       ELSE /\ edges' = [edges EXCEPT ![location] =
                            [hasRoad |-> TRUE, ownerPlayerId |-> playerId]]
            /\ players' = [players EXCEPT ![playerId + 1].roadsRemaining = @ - 1]
            /\ response' = Ok("core", "placeSetupRoad", playerId, location)
            /\ UNCHANGED <<phase, currentPlayerIndex, hexes, vertices, robberLocation,
                           devCardDeck, lastRoll, devCardPlayedThisTurn,
                           tradeOffers, nextTradeId, achievements, executor>>
    /\ UNCHANGED <<turnsEnded, mutex, threads, achievements, executor>>

(***************************************************************************)
(* Threads: one handler thread per connection (server.cpp), the AI thread  *)
(* (ai_agent.cpp), and the mutex of the game.                              *)
(***************************************************************************)
\* a handler thread receives a request and runs the checks that precede the
\* lock; a new connection is served by the first thread that is free
Receive(t, op, p, a) ==
    /\ threads[t].pc = "idle"
    /\ \A u \in HandlerThreads : u < t => threads[u].pc # "idle"
    /\ op \in {"join", "add-ai"} \/ p \in PlayerIds
    /\ IF CASE op \in {"join", "add-ai"} -> TRUE
            [] op = "start" -> getGameContext(p, FALSE)
            [] op = "ai/execute" -> ExecuteAIToolChecks(p, a[1])
            [] OTHER -> getGameContext(p, TRUE)
       THEN /\ threads' = [threads EXCEPT ![t] = [pc |-> "lock", op |-> op, p |-> p, a |-> a]]
            /\ UNCHANGED response
       ELSE /\ response' = Fail("http", op, p, a)
            /\ UNCHANGED threads
    /\ UNCHANGED <<gameVars, turnsEnded, mutex, executor>>

\* a handler that leaves the mutex alone
SkipGameMutex(t) == UNCHANGED mutex

\* std::lock_guard<std::mutex> lock(game->mutex) in a handler
LockGameMutex(t) ==
    /\ mutex = NoThread
    /\ mutex' = t

\* a handler thread takes the lock
Acquire(t) ==
    /\ threads[t].pc = "lock"
    /\ LockGameMutex(t)
    /\ threads' = [threads EXCEPT ![t].pc = "body"]
    /\ UNCHANGED <<gameVars, response, turnsEnded, executor>>

\* the part of a handler that runs under the lock
LockedPart(op, p, a) ==
    CASE op = "join" -> JoinGameLocked(a[1]) /\ UNCHANGED turnsEnded
      [] op = "add-ai" -> AddAIPlayersLocked(a[1]) /\ UNCHANGED turnsEnded
      [] op = "start" -> StartGameLocked(p) /\ UNCHANGED turnsEnded
      [] op = "roll_dice" ->
            \E d1 \in Die1, d2 \in Die2 : RollDice("http", p, d1, d2) /\ UNCHANGED turnsEnded
      [] op = "build_road" -> BuyRoadLocked(p) /\ UNCHANGED turnsEnded
      [] op = "end_turn" -> EndTurn("http", p)
      [] op = "ai/execute" ->
            \E x \in ToolArgs(a[1]) : ExecuteAIToolLocked(p, a[1], x)

\* a handler thread runs the locked part and leaves the scope of the lock_guard
Body(t) ==
    /\ threads[t].pc = "body"
    /\ LockedPart(threads[t].op, threads[t].p, threads[t].a)
    /\ mutex' = NoThread
    /\ threads' = [threads EXCEPT ![t] = Idle]
    /\ UNCHANGED executor

\* processSingleAITurn: the turn check at the top of the loop, without the lock
AICheck ==
    /\ threads[AIThread].pc = "idle"
    /\ hasAIPendingTurns
    /\ threads' = [threads EXCEPT ![AIThread] =
                      [pc |-> "lock", op |-> "executor", p |-> currentPlayerIndex, a |-> <<>>]]
    /\ UNCHANGED <<gameVars, response, turnsEnded, mutex, executor>>

\* processSingleAITurn: std::lock_guard<std::mutex> lock(game->mutex)
AIAcquire ==
    /\ threads[AIThread].pc = "lock"
    /\ mutex = NoThread
    /\ mutex' = AIThread
    /\ threads' = [threads EXCEPT ![AIThread].pc = "body"]
    /\ UNCHANGED <<gameVars, response, turnsEnded, executor>>

\* processSingleAITurn under the lock: isMyTurn is read again, then the tool runs
AIBody(tool, a) ==
    /\ threads[AIThread].pc = "body"
    /\ IF currentPlayerIndex # threads[AIThread].p
       THEN UNCHANGED <<gameVars, response, turnsEnded, executor>>
       ELSE executeToolCall(threads[AIThread].p, tool, a)
    /\ mutex' = NoThread
    /\ threads' = [threads EXCEPT ![AIThread] = Idle]
    /\ UNCHANGED executor

\* what the body of a request holds
RequestArgs(op) ==
    CASE op = "join" -> {<<isAI>> : isAI \in BOOLEAN}
      [] op = "add-ai" -> {<<-1>>, <<1>>}
      [] op = "ai/execute" -> {<<tool>> : tool \in {"roll_dice", "end_turn"}}
      [] OTHER -> {<<>>}

NextThreads ==
    \/ \E t \in HandlerThreads, op \in ({"join", "start", "roll_dice", "end_turn"}), p \in SeatInputs :
          \E a \in RequestArgs(op) : Receive(t, op, p, a)
    \/ \E t \in HandlerThreads : Acquire(t)
    \/ \E t \in HandlerThreads : Body(t)
    \/ AICheck
    \/ AIAcquire
    \/ \E tool \in {"roll_dice", "end_turn"} : \E a \in ExecutorArgs(tool) : AIBody(tool, a)

SpecThreads == Init /\ [][NextThreads]_vars

Next ==
    \/ \E isAI \in BOOLEAN : HandleJoinGame(isAI)
    \/ \E count \in {-1, 1} : HandleAddAIPlayers(count)
    \/ \E p \in PlayerIds : HandleStartGame(p)
    \/ \E p \in PlayerIds, d1 \in Die1, d2 \in Die2 : HandleRollDice(p, d1, d2)
    \/ \E p \in PlayerIds : HandleBuyRoad(p)
    \/ \E p \in PlayerIds : HandleBuySettlement(p)
    \/ \E p \in PlayerIds : HandleBuyCity(p)
    \/ \E p \in PlayerIds : HandleBuyDevCard(p)
    \/ \E p \in PlayerIds, give \in ResourceNames, receive \in ResourceNames :
          HandleBankTrade(p, give, receive)
    \/ \E p \in PlayerIds : HandleEndTurn(p)
    \/ \E p \in PlayerIds, tool \in ExecuteTools \cup {"unknown"} :
          \E a \in ToolArgs(tool) : HandleExecuteAITool(p, tool, a)
    \/ \E tool \in ExecuteTools \cup {"propose_trade", "accept_trade", "reject_trade",
                                   "counter_trade", "unknown"} :
          \E a \in ExecutorArgs(tool) : ProcessSingleAITurn(tool, a)

Spec == Init /\ [][Next]_vars

(***************************************************************************)
(* Narrower specifications: the same Init, a part of the commands.         *)
(***************************************************************************)
Lobby ==
    \/ \E isAI \in BOOLEAN : HandleJoinGame(isAI)
    \/ \E count \in {-1, 1} : HandleAddAIPlayers(count)
    \/ \E p \in PlayerIds : HandleStartGame(p)

\* the tools that matter to a roll: rolling, building, ending the turn
NextRoll ==
    \/ Lobby
    \/ \E p \in PlayerIds, d1 \in Die1, d2 \in Die2 : HandleRollDice(p, d1, d2)
    \/ \E p \in PlayerIds : HandleEndTurn(p)
    \/ \E p \in PlayerIds, tool \in {"roll_dice", "build_settlement", "end_turn"} :
          \E a \in ToolArgs(tool) : HandleExecuteAITool(p, tool, a)
    \/ \E tool \in {"roll_dice", "build_settlement", "end_turn"} :
          \E a \in ExecutorArgs(tool) : ProcessSingleAITurn(tool, a)

SpecRoll == Init /\ [][NextRoll]_vars

\* the tools that matter to the robber: rolling, moving the robber, ending the turn
NextRobber ==
    \/ Lobby
    \/ \E p \in PlayerIds, d1 \in Die1, d2 \in Die2 : HandleRollDice(p, d1, d2)
    \/ \E p \in PlayerIds : HandleEndTurn(p)
    \/ \E p \in PlayerIds, tool \in {"roll_dice", "move_robber", "end_turn"} :
          \E a \in ToolArgs(tool) : HandleExecuteAITool(p, tool, a)
    \/ \E tool \in {"roll_dice", "move_robber", "end_turn"} :
          \E a \in ExecutorArgs(tool) : ProcessSingleAITurn(tool, a)

SpecRobber == Init /\ [][NextRobber]_vars

\* the tools that matter to building: rolling, the three builds, ending the turn
NextBuild ==
    \/ \E isAI \in BOOLEAN : HandleJoinGame(isAI)
    \/ \E p \in PlayerIds : HandleStartGame(p)
    \/ \E p \in PlayerIds, d1 \in Die1, d2 \in Die2 : HandleRollDice(p, d1, d2)
    \/ \E p \in PlayerIds : HandleBuyRoad(p)
    \/ \E p \in PlayerIds : HandleBuySettlement(p)
    \/ \E p \in PlayerIds : HandleBuyCity(p)
    \/ \E p \in PlayerIds : HandleEndTurn(p)
    \/ \E p \in PlayerIds, tool \in {"roll_dice", "build_road", "build_settlement", "build_city", "end_turn"} :
          \E a \in ToolArgs(tool) : HandleExecuteAITool(p, tool, a)
    \/ \E tool \in {"roll_dice", "build_road", "build_settlement", "build_city", "end_turn"} :
          \E a \in ExecutorArgs(tool) : ProcessSingleAITurn(tool, a)

SpecBuild == Init /\ [][NextBuild]_vars

\* the tools that matter to trading: the four trade tools and what lets a
\* proposer spend what was offered
NextTrade ==
    \/ Lobby
    \/ \E tool \in {"roll_dice", "buy_dev_card", "end_turn", "propose_trade", "accept_trade", "reject_trade", "counter_trade"} :
          \E a \in ExecutorArgs(tool) : ProcessSingleAITurn(tool, a)

SpecTrade == Init /\ [][NextTrade]_vars

\* the engine's setup placements next to the lobby
NextSetup ==
    \/ Lobby
    \/ \E p \in SeatInputs, c \in InputCoords : placeSetupSettlement(p, c)
    \/ \E p \in SeatInputs, c \in InputCoords : placeSetupRoad(p, c)

SpecSetup == Init /\ [][NextSetup]_vars

(***************************************************************************)
(* Dice claims.                                                            *)
(***************************************************************************)
\* a step in which a roll command succeeded
IsRollStep ==
    /\ phase = "Rolling"
    /\ response'.ok
    /\ response'.op = "roll_dice"
    /\ lastRoll' = response'.args

\* C5: a roll of seven in the Rolling phase leads to the Robber phase and
\* changes no player's resources, on the HTTP path, on ai/execute and on the
\* AI thread
C5_SevenLeadsToRobber ==
    [][(IsRollStep /\ lastRoll'[1] + lastRoll'[2] = RobberTotal)
          => /\ phase' = "Robber"
             /\ \A i \in 1..Len(players) : players'[i].resources = players[i].resources]_vars

\* C5 witness: a seven has just been rolled through ai/execute while a
\* settlement stands on the board, and the game waits for the robber
C5_Witness ==
    /\ response.ok
    /\ response.op = "roll_dice"
    /\ response.path = "ai/execute"
    /\ lastRoll = response.args
    /\ lastRoll[1] + lastRoll[2] = RobberTotal
    /\ phase = "Robber"
    /\ \E k \in BoardKeys : vertices[k].building # "None"

\* C6: a roll other than seven leads to MainTurn and every building stored on
\* a vertex of a hex whose token matches the total, the robber not on it,
\* brings its owner one unit (settlement) or two (city) of the hex's resource
C6_RollProduces ==
    [][(IsRollStep /\ lastRoll'[1] + lastRoll'[2] # RobberTotal)
          => /\ phase' = "MainTurn"
             /\ \A k \in BoardKeys :
                   LET h == <<k[1], k[2]>>
                       o == vertices[k].ownerPlayerId
                       r == hexTypeToResource(hexes[h].type)
                   IN  (/\ vertices[k].building # "None"
                        /\ o \in PlayerIds
                        /\ hexes[h].numberToken = lastRoll'[1] + lastRoll'[2]
                        /\ ~hexes[h].hasRobber
                        /\ r \in Resources)
                       => players'[o + 1].resources[r] >=
                             players[o + 1].resources[r] +
                             (IF vertices[k].building = "City" THEN 2 ELSE 1)]_vars

(***************************************************************************)
(* Robber claims.                                                          *)
(***************************************************************************)
\* C7: exactly one hex carries the robber and robberLocation names that hex,
\* also after a move_robber whose coordinates are not on the board
C7_OneRobber ==
    /\ Cardinality({h \in LandHexes : hexes[h].hasRobber}) = 1
    /\ robberLocation \in LandHexes
    /\ hexes[robberLocation].hasRobber

(***************************************************************************)
(* Building claims.                                                        *)
(***************************************************************************)
\* C8: the distance rule: no two buildings stand on adjacent vertices; two
\* consecutive corners of one hex are adjacent
C8_DistanceRule ==
    \A k \in BoardKeys :
        ~(Built(k) /\ Built(<<k[1], k[2], (k[3] + 1) % 6>>))

\* a step in which a tool that names a board coordinate succeeded
ToolSucceeds(op) ==
    /\ response'.ok
    /\ response'.op = op
    /\ response'.path \in {"ai/execute", "executor"}

\* C9: build_road succeeds only on an edge that is on the board, carries no
\* road and is connected to the builder's network
C9_RoadOnlyWhereValid ==
    [][ToolSucceeds("build_road")
          => /\ response'.args \in BoardKeys
             /\ ~edges[response'.args].hasRoad
             /\ isRoadConnectedToNetwork(response'.player, response'.args)]_vars

\* C10: build_settlement succeeds only on a vertex that
\* getValidSettlementLocations lists for the builder, never on an occupied one
C10_SettlementOnlyWhereValid ==
    [][ToolSucceeds("build_settlement")
          => /\ response'.args \in getValidSettlementLocations(response'.player)
             /\ ~Built(response'.args)]_vars

(***************************************************************************)
(* Failure claims.                                                         *)
(***************************************************************************)
\* C1: a command that fails leaves the game as it was: no command changes a
\* part of the state and then reports failure
C1_FailureChangesNothing ==
    [][~response'.ok => gameVars' = gameVars]_vars

(***************************************************************************)
(* Phase claims.                                                           *)
(***************************************************************************)
\* the phases in which a command may succeed
LegalPhases(op) ==
    CASE op = "roll_dice" -> {"Rolling"}
      [] op = "move_robber" -> {"Robber"}
      [] op \in {"build_road", "build_settlement", "build_city", "buy_dev_card",
                 "bank_trade", "end_turn"} -> {"MainTurn"}
      [] op \in {"placeSetupSettlement", "placeSetupRoad"} -> {"Setup", "SetupReverse"}
      [] op \in {"join", "add-ai", "start"} -> {"WaitingForPlayers"}
      [] OTHER -> {"WaitingForPlayers", "Setup", "SetupReverse", "Rolling", "Robber",
                   "Stealing", "MainTurn", "Trading", "Finished"}

\* C2: a command succeeds only in its legal phase, and while the phase is
\* WaitingForPlayers or Finished nothing but the start of the game changes a
\* player's resources or the board
C2_PhaseChecked ==
    [][/\ response'.ok => phase \in LegalPhases(response'.op)
       /\ (phase \in {"WaitingForPlayers", "Finished"} /\ response'.op # "start")
             => /\ Len(players') >= Len(players)
                /\ \A i \in 1..Len(players) : players'[i].resources = players[i].resources
                /\ <<hexes, vertices, edges, robberLocation>>' =
                      <<hexes, vertices, edges, robberLocation>>]_vars

(***************************************************************************)
(* Concurrency claims.                                                     *)
(***************************************************************************)
\* C3: at most one thread is inside a state-changing section of the game, and
\* every write to the game is made by a thread that holds the game's mutex
C3_WritesUnderMutex ==
    [][/\ Cardinality({t \in ThreadIds : threads'[t].pc = "body"}) <= 1
       /\ gameVars' # gameVars
             => \E t \in ThreadIds : threads'[t] # threads[t] /\ mutex = t]_vars

\* C3 witness: the game is under way, a handler thread holds the mutex and is
\* about to write, and the AI thread waits for the same mutex
C3_Witness ==
    /\ phase = "MainTurn"
    /\ response.ok
    /\ \E t \in HandlerThreads : threads[t].pc = "body" /\ mutex = t
    /\ threads[AIThread].pc = "lock"

\* the commands that belong to the player whose turn it is
TurnOps == {"roll_dice", "end_turn", "build_road", "build_settlement", "build_city",
            "buy_dev_card", "bank_trade", "move_robber"}

\* C4: the turn check and the change it guards are one unit: a command is
\* applied only while it is the turn of the player who sent it
C4_AppliedOnOwnTurn ==
    [][(gameVars' # gameVars /\ response'.ok /\ response'.op \in TurnOps)
          => response'.player = currentPlayerIndex]_vars

(***************************************************************************)
(* City claims.                                                            *)
(***************************************************************************)
\* the tools that matter to a city: a trade that brings the ore, the builds
NextCity ==
    \/ \E isAI \in BOOLEAN : HandleJoinGame(isAI)
    \/ \E p \in PlayerIds : HandleStartGame(p)
    \/ \E p \in PlayerIds : HandleBuyCity(p)
    \/ \E p \in PlayerIds :
          \E a \in ToolArgs("build_city") : HandleExecuteAITool(p, "build_city", a)
    \/ \E tool \in {"roll_dice", "propose_trade", "accept_trade", "build_settlement", "build_city", "end_turn"} :
          \E a \in ExecutorArgs(tool) : ProcessSingleAITurn(tool, a)

SpecCity == Init /\ [][NextCity]_vars

\* C11: every city command that succeeds turns exactly one vertex holding the
\* builder's own settlement into a city of the same owner, takes one city
\* from the builder's pool and returns one settlement to it
C11_CityOnOwnSettlement ==
    [][(response'.ok /\ response'.op = "build_city")
          => LET p == response'.player
             IN  /\ \E k \in BoardKeys :
                       /\ vertices[k].building = "Settlement"
                       /\ vertices[k].ownerPlayerId = p
                       /\ vertices' = [vertices EXCEPT ![k].building = "City"]
                 /\ players'[p + 1].citiesRemaining = players[p + 1].citiesRemaining - 1
                 /\ players'[p + 1].settlementsRemaining =
                       players[p + 1].settlementsRemaining + 1]_vars

(***************************************************************************)
(* Coordinate equivalence (game_logic.cpp).                                *)
(***************************************************************************)
\* verticesEqual(v1, v2)
verticesEqual(v1, v2) ==
    LET n1 == Neighbor(v1[1], v1[2], v1[3])
        n2 == Neighbor(v1[1], v1[2], (v1[3] + 5) % 6)
    IN  \/ v1 = v2
        \/ n1 = <<v2[1], v2[2]>> /\ (v1[3] + 3) % 6 = v2[3]
        \/ n2 = <<v2[1], v2[2]>> /\ (v1[3] + 4) % 6 = v2[3]

\* edgesEqual(e1, e2)
edgesEqual(e1, e2) ==
    LET neighbor == Neighbor(e1[1], e1[2], e1[3])
    IN  \/ e1 = e2
        \/ neighbor = <<e2[1], e2[2]>> /\ (e1[3] + 3) % 6 = e2[3]

\* a caller compares two vertex coordinates of the board; the result depends
\* on the two arguments alone, so one call is made from the initial state
CallVerticesEqual(v1, v2) ==
    /\ response = NoResponse
    /\ response' = [ok |-> verticesEqual(v1, v2), path |-> "core",
                    op |-> "verticesEqual", player |-> NoPlayer, args |-> <<v1, v2>>]
    /\ UNCHANGED <<gameVars, turnsEnded, mutex, threads, executor>>

\* a caller compares two edge coordinates of the board
CallEdgesEqual(e1, e2) ==
    /\ response = NoResponse
    /\ response' = [ok |-> edgesEqual(e1, e2), path |-> "core",
                    op |-> "edgesEqual", player |-> NoPlayer, args |-> <<e1, e2>>]
    /\ UNCHANGED <<gameVars, turnsEnded, mutex, threads, executor>>

NextEqual ==
    \/ \E v1 \in BoardKeys, v2 \in BoardKeys : CallVerticesEqual(v1, v2)
    \/ \E e1 \in BoardKeys, e2 \in BoardKeys : CallEdgesEqual(e1, e2)

SpecEqual == Init /\ [][NextEqual]_vars

\* two coordinates name one corner: they touch the same three hexes
SameVertex(v1, v2) == getHexesAdjacentToVertex(v1) = getHexesAdjacentToVertex(v2)

\* two coordinates name one side: they separate the same two hexes
SameEdge(e1, e2) ==
    {<<e1[1], e1[2]>>, Neighbor(e1[1], e1[2], e1[3])} =
    {<<e2[1], e2[2]>>, Neighbor(e2[1], e2[2], e2[3])}

\* C12: verticesEqual is true for every two representations of one corner and
\* edgesEqual is true for every two representations of one side
C12_EqualOnAllRepresentations ==
    /\ (response.op = "verticesEqual" /\ SameVertex(response.args[1], response.args[2]))
          => response.ok
    /\ (response.op = "edgesEqual" /\ SameEdge(response.args[1], response.args[2]))
          => response.ok

\* the part of C12 that is about edges
C12_EdgesPart ==
    (response.op = "edgesEqual" /\ SameEdge(response.args[1], response.args[2]))
        => response.ok

\* C13: a building or road placed through one representation of a corner or
\* side is seen through every other representation: the stored building,
\* road and owner agree, and so do the distance rule and road connectivity
C13_LookupsAgree ==
    /\ \A v1 \in BoardKeys, v2 \in BoardKeys :
          SameVertex(v1, v2)
             => /\ vertices[v1] = vertices[v2]
                /\ isVertexDistanceValid(v1) = isVertexDistanceValid(v2)
    /\ \A e1 \in BoardKeys, e2 \in BoardKeys :
          SameEdge(e1, e2)
             => /\ edges[e1] = edges[e2]
                /\ \A p \in PlayerIds :
                      isRoadConnectedToNetwork(p, e1) = isRoadConnectedToNetwork(p, e2)

(***************************************************************************)
(* Longest road (game_logic.cpp).                                          *)
(***************************************************************************)
\* std::max over the lengths found (the set holds naturals)
SetMax(S) == Cardinality(UNION {1..n : n \in S})

\* longestRoadDFS: visited is the set of edge keys on the current path; the
\* key is released when the call returns, so each call sees visited plus
\* its own edge
RECURSIVE longestRoadDFS(_, _, _, _)
longestRoadDFS(playerId, currentEdge, visited, depth) ==
    LET seen == visited \cup {currentEdge}
        blocked(v) == /\ v \in BoardKeys
                      /\ vertices[v].building # "None"
                      /\ vertices[v].ownerPlayerId # playerId
        next == {n \in {getEdgesAtVertex(getVerticesOfEdge(currentEdge)[j])[i] :
                           j \in {x \in 1..2 : ~blocked(getVerticesOfEdge(currentEdge)[x])},
                           i \in 1..3} :
                    RoadOf(n, playerId) /\ n \notin seen}
    IN  SetMax({depth} \cup
               {longestRoadDFS(playerId, n, seen, depth + 1) : n \in next})

\* calculateLongestRoad
calculateLongestRoad(playerId) ==
    SetMax({0} \cup {longestRoadDFS(playerId, e, {}, 1) :
                        e \in {k \in BoardKeys : RoadOf(k, playerId)}})


NextRoads ==
    \/ \E isAI \in BOOLEAN : HandleJoinGame(isAI)
    \/ \E p \in PlayerIds : HandleStartGame(p)
    \/ \E p \in PlayerIds, tool \in {"roll_dice", "end_turn"} :
          \E a \in ToolArgs(tool) : HandleExecuteAITool(p, tool, a)
    \/ \E p \in PlayerIds, tool \in {"build_road", "build_settlement"} :
          \E a \in {<<1, -1, 0>>, <<1, -1, 1>>, <<1, -2, 2>>} : HandleExecuteAITool(p, tool, a)

SpecRoads == Init /\ [][NextRoads]_vars

\* the two corners of a side, each named by the three hexes it touches
EdgeEnds(e) == {getHexesAdjacentToVertex(getVerticesOfEdge(e)[j]) : j \in 1..2}

\* an opponent of the player has a building on the corner, under any key
OpponentAt(corner, playerId) ==
    \E k \in BoardKeys : /\ getHexesAdjacentToVertex(k) = corner
                         /\ Built(k)
                         /\ vertices[k].ownerPlayerId # playerId

\* C14: the longest road of a player whose roads are one side is 1, and of a
\* player whose roads are two sides meeting at a corner it is 2, or 1 when an
\* opponent's building stands on that corner
C14_LongestRoadOfChain ==
    \A p \in PlayerIds :
        LET R == {k \in BoardKeys : RoadOf(k, p)}
        IN  /\ Cardinality(R) = 1 => calculateLongestRoad(p) = 1
            /\ \A e1 \in R, e2 \in R :
                  (/\ Cardinality(R) = 2
                   /\ ~SameEdge(e1, e2)
                   /\ EdgeEnds(e1) \cap EdgeEnds(e2) # {})
                     => calculateLongestRoad(p) =
                           (IF \E c \in EdgeEnds(e1) \cap EdgeEnds(e2) : OpponentAt(c, p)
                            THEN 1 ELSE 2)

\* the part of C14 in which every road and building is keyed on one hex
C14_OneHexPart ==
    \A p \in PlayerIds :
        (/\ RoadOf(<<1, -1, 0>>, p) /\ RoadOf(<<1, -1, 1>>, p)
         /\ ~RoadOf(<<1, -2, 2>>, p))
           => calculateLongestRoad(p) =
                 (IF Built(<<1, -1, 1>>) /\ vertices[<<1, -1, 1>>].ownerPlayerId # p
                  THEN 1 ELSE 2)

(***************************************************************************)
(* Bank trade claims.                                                      *)
(***************************************************************************)
\* a proposal that hands over two ore and asks for nothing: what brings a
\* player to four of one resource within the first turns
NextBank ==
    \/ \E isAI \in BOOLEAN : HandleJoinGame(isAI)
    \/ \E p \in PlayerIds : HandleStartGame(p)
    \/ \E p \in PlayerIds, give \in ResourceNames, receive \in ResourceNames :
          HandleBankTrade(p, give, receive)
    \/ \E p \in PlayerIds :
          \E a \in ToolArgs("bank_trade") : HandleExecuteAITool(p, "bank_trade", a)
    \/ \E tool \in {"roll_dice", "end_turn", "accept_trade", "bank_trade"} :
          \E a \in ExecutorArgs(tool) : ProcessSingleAITurn(tool, a)
    \/ \E a \in {<<NoPlayer, Hand(0, 0, 0, 0, 2), EmptyHand>>} : ProcessSingleAITurn("propose_trade", a)

SpecBank == Init /\ [][NextBank]_vars

\* C15: a bank trade of resource A for a different resource B succeeds only
\* when the player holds four of A, then takes exactly four of A and gives
\* exactly one of B and changes no other counter of any player; a bank trade
\* that fails deducts nothing
C15_BankTradeFourForOne ==
    [][response'.op = "bank_trade"
          => IF response'.ok
             THEN LET p == response'.player
                      give == response'.args[1]
                      receive == response'.args[2]
                  IN  give # receive
                         => /\ phase = "MainTurn"
                            /\ players[p + 1].resources[give] >= 4
                            /\ players' = [players EXCEPT ![p + 1].resources =
                                  MkHand([r \in Resources |->
                                     players[p + 1].resources[r]
                                        - (IF r = give THEN 4 ELSE 0)
                                        + (IF r = receive THEN 1 ELSE 0)])]
             ELSE players' = players]_vars

\* C15 witness: a bank trade of one resource for another has just succeeded
\* through the HTTP handler
C15_Witness ==
    /\ response.ok
    /\ response.op = "bank_trade"
    /\ response.path = "http"
    /\ response.args[1] # response.args[2]

(***************************************************************************)
(* Ports and the trade ratio (game_logic.cpp, catan_game.cpp).             *)
(***************************************************************************)

\* GameBoard::ports: generateRandomBoard shuffles a local list of port types
\* and returns the board without storing a port, and nothing else writes the
\* list
ports == <<>>

\* playerHasPort
playerHasPort(playerId, portType) ==
    \E i \in 1..Len(ports) :
        /\ ports[i].type = portType
        /\ \E v \in {ports[i].vertex1, ports[i].vertex2} :
              /\ v \in BoardKeys
              /\ vertices[v].ownerPlayerId = playerId
              /\ vertices[v].building # "None"

\* getTradeRatio
getTradeRatio(playerId, resource) ==
    IF resource \notin Resources THEN 4
    ELSE IF playerHasPort(playerId, resource) THEN 2
    ELSE IF playerHasPort(playerId, "Generic") THEN 3
    ELSE 4

C16_DeductionPart ==
    [][(response'.ok /\ response'.op = "bank_trade"
           /\ response'.args[1] # response'.args[2])
          => LET p == response'.player
                 give == response'.args[1]
             IN  players[p + 1].resources[give] - players'[p + 1].resources[give]
                    = getTradeRatio(p, give)]_vars

(***************************************************************************)
(* Victory points (game_logic.cpp).                                        *)
(***************************************************************************)
\* a tally that leaves the hidden victory-point cards out
VisiblePointsOnly(playerId, includeHidden) ==
    LET me == getPlayerById(playerId)
    IN  Cardinality({k \in BoardKeys : /\ vertices[k].ownerPlayerId = playerId
                                       /\ vertices[k].building = "Settlement"})
        + 2 * Cardinality({k \in BoardKeys : /\ vertices[k].ownerPlayerId = playerId
                                             /\ vertices[k].building = "City"})
        + (IF me.hasLongestRoad THEN 2 ELSE 0)
        + (IF me.hasLargestArmy THEN 2 ELSE 0)

\* calculateVictoryPoints
calculateVictoryPoints(playerId, includeHidden) ==
    LET me == getPlayerById(playerId)
    IN  Cardinality({k \in BoardKeys : /\ vertices[k].ownerPlayerId = playerId
                                       /\ vertices[k].building = "Settlement"})
        + 2 * Cardinality({k \in BoardKeys : /\ vertices[k].ownerPlayerId = playerId
                                             /\ vertices[k].building = "City"})
        + (IF me.hasLongestRoad THEN 2 ELSE 0)
        + (IF me.hasLargestArmy THEN 2 ELSE 0)
        + (IF includeHidden
           THEN Cardinality({i \in 1..Len(me.devCards) : me.devCards[i] = "VictoryPoint"})
           ELSE 0)

\* checkForWinner: the first player of the roster with the winning points
checkForWinner ==
    LET winners == {i \in 1..Len(players) :
                       calculateVictoryPoints(players[i].id, TRUE) >= WinningPoints}
    IN  IF winners = {} THEN NoPlayer
        ELSE players[CHOOSE i \in winners : \A j \in winners : i <= j].id

\* a caller asks for the winner once
CallCheckForWinner ==
    /\ response = NoResponse
    /\ response' = [ok |-> TRUE, path |-> "core", op |-> "checkForWinner",
                    player |-> checkForWinner, args |-> <<>>]
    /\ UNCHANGED <<gameVars, turnsEnded, mutex, threads, executor>>

\* a tally for opponents that still counts the hidden victory-point cards
VisibleWithHidden(playerId) == calculateVictoryPoints(playerId, TRUE)

\* calculateVisibleVictoryPoints
calculateVisibleVictoryPoints(playerId) == calculateVictoryPoints(playerId, FALSE)

\* a caller asks for the points of a player once: the tally with or without
\* hidden cards, and the visible tally
CallCalculateVictoryPoints(playerId, includeHidden) ==
    /\ response = NoResponse
    /\ response' = [ok |-> TRUE, path |-> "core", op |-> "calculateVictoryPoints",
                    player |-> playerId,
                    args |-> <<includeHidden,
                               calculateVictoryPoints(playerId, includeHidden),
                               calculateVisibleVictoryPoints(playerId)>>]
    /\ UNCHANGED <<gameVars, turnsEnded, mutex, threads, executor>>

\* positions late in a game of two players, as input of checkForWinner; a
\* player has cities on the first corners of the home hex, settlements on the
\* next ones, victory-point cards in hand, the roads of the longest road when
\* the player holds it, and the knights of the largest army when the player
\* holds it
InitWinner ==
    \E c0 \in (InitialCities - MaxCitiesLeft)..InitialCities,
       c1 \in (InitialCities - MaxCitiesLeft)..InitialCities,
       s0 \in 0..MaxSettlementsBuilt, s1 \in 0..MaxSettlementsBuilt,
       v0 \in 0..MaxVictoryCards, v1 \in 0..MaxVictoryCards,
       holder \in {NoPlayer, 0, 1}, general \in {NoPlayer, 0, 1} :
        LET HomeHex(id) == IF id = 0 THEN <<0, 0>> ELSE <<2, -2>>
            LatePlayer(id, cities, settlements, cards, longest, army) ==
                [NewPlayer(id, FALSE, TRUE) EXCEPT
                    !.devCards = [i \in 1..cards |-> "VictoryPoint"],
                    !.settlementsRemaining = InitialSettlements - settlements,
                    !.citiesRemaining = InitialCities - cities,
                    !.roadsRemaining = InitialRoads - (IF longest THEN MinLongestRoad ELSE 0),
                    !.hasLongestRoad = longest,
                    !.knightsPlayed = IF army THEN NoTitles.largestArmySize + 1 ELSE 0,
                    !.hasLargestArmy = army]
            c == <<c0, c1>>
            st == <<s0, s1>>
            v == <<v0, v1>>
        IN  /\ v0 + v1 <= 5
            /\ \A i \in 1..2 : c[i] >= 0 /\ c[i] + st[i] <= 6 /\ st[i] <= InitialSettlements
            /\ phase = "MainTurn"
            /\ currentPlayerIndex = 0
            /\ players = [i \in 1..2 |-> LatePlayer(i - 1, c[i], st[i], v[i],
                                                    holder = i - 1, general = i - 1)]
            /\ hexes = GenerateHexes(STANDARD_RESOURCES, STANDARD_NUMBERS)
            /\ robberLocation = GenerateRobberLocation(STANDARD_RESOURCES)
            /\ vertices = [k \in BoardKeys |->
                  IF \E i \in 1..2 : <<k[1], k[2]>> = HomeHex(i - 1) /\ k[3] < c[i] + st[i]
                  THEN LET i == CHOOSE j \in 1..2 : <<k[1], k[2]>> = HomeHex(j - 1)
                       IN  [building |-> IF k[3] < c[i] THEN "City" ELSE "Settlement",
                            ownerPlayerId |-> i - 1]
                  ELSE EmptyVertex]
            /\ edges = [k \in BoardKeys |->
                  IF holder # NoPlayer /\ <<k[1], k[2]>> = HomeHex(holder)
                     /\ k[3] < MinLongestRoad
                  THEN [hasRoad |-> TRUE, ownerPlayerId |-> holder]
                  ELSE EmptyEdge]
            /\ devCardDeck = [i \in 1..(25 - v0 - v1) |->
                                 IF i <= 14 THEN "Knight" ELSE DevCardDeckList[i + v0 + v1]]
            /\ lastRoll = <<1, 1>>
            /\ devCardPlayedThisTurn = FALSE
            /\ tradeOffers = <<>>
            /\ nextTradeId = 0
            /\ achievements =
                  [longestRoadLength |-> IF holder = NoPlayer THEN NoTitles.longestRoadLength
                                         ELSE MinLongestRoad,
                   longestRoadPlayerId |-> holder,
                   largestArmySize |-> IF general = NoPlayer THEN NoTitles.largestArmySize
                                       ELSE NoTitles.largestArmySize + 1,
                   largestArmyPlayerId |-> general]
            /\ response = NoResponse
            /\ turnsEnded = 0
            /\ mutex = NoThread
            /\ threads = [t \in ThreadIds |-> Idle]
            /\ executor = NoExecutor

NextWinner ==
    \/ CallCheckForWinner
    \/ \E p \in PlayerIds, includeHidden \in BOOLEAN :
          CallCalculateVictoryPoints(p, includeHidden)

SpecWinner == InitWinner /\ [][NextWinner]_vars

\* buildings, achievement bonuses and hidden victory-point cards of a player
TotalPoints(id) ==
    Cardinality({k \in BoardKeys : vertices[k].ownerPlayerId = id /\ Built(k)})
    + Cardinality({k \in BoardKeys : vertices[k].ownerPlayerId = id
                                     /\ vertices[k].building = "City"})
    + (IF players[id + 1].hasLongestRoad THEN 2 ELSE 0)
    + (IF players[id + 1].hasLargestArmy THEN 2 ELSE 0)
    + Len(SelectSeq(players[id + 1].devCards, LAMBDA card : card = "VictoryPoint"))

\* C17: checkForWinner returns a player exactly when some player has 10 or
\* more points in total, the player returned is the first such player of the
\* roster, and it returns -1 when nobody has 10
C17_WinnerAtTen ==
    response.op = "checkForWinner"
       => LET w == response.player
          IN  /\ (w = -1) <=> (\A q \in PlayerIds : TotalPoints(q) <= 9)
              /\ w # -1 => /\ w \in PlayerIds
                           /\ TotalPoints(w) >= 10
                           /\ \A q \in PlayerIds : q < w => TotalPoints(q) <= 9

\* C22: calculateVictoryPoints is 1 per settlement and 2 per city of the
\* player on the board, 2 for the longest road, 2 for the largest army and,
\* only with includeHidden, 1 per victory-point card held; the visible points
\* are the total without the victory-point cards held
C22_PointsTally ==
    response.op = "calculateVictoryPoints" =>
        LET p == response.player
            me == players[p + 1]
            Owned(b) == Cardinality({k \in DOMAIN vertices :
                                        /\ vertices[k].ownerPlayerId = p
                                        /\ vertices[k].building = b})
            cards == Len(SelectSeq(me.devCards, LAMBDA card : card = "VictoryPoint"))
            open == Owned("Settlement") + 2 * Owned("City")
                    + (IF me.hasLongestRoad THEN 2 ELSE 0)
                    + (IF me.hasLargestArmy THEN 2 ELSE 0)
        IN  /\ response.args[2] = open + (IF response.args[1] THEN cards ELSE 0)
            /\ response.args[3] = (open + cards) - cards

\* C22 witness: the points were asked, hidden cards included, of a player with
\* settlements, cities, both titles and victory-point cards
C22_Witness ==
    /\ response.op = "calculateVictoryPoints"
    /\ response.args[1]
    /\ LET me == players[response.player + 1]
       IN  /\ me.hasLongestRoad /\ me.hasLargestArmy
           /\ Len(me.devCards) > 0
           /\ \E k \in DOMAIN vertices : /\ vertices[k].ownerPlayerId = me.id
                                          /\ vertices[k].building = "Settlement"
           /\ \E k \in DOMAIN vertices : /\ vertices[k].ownerPlayerId = me.id
                                          /\ vertices[k].building = "City"

\* C17 witness: the first player stands at 9 points, the second at 10 or more
\* thanks to hidden cards, and checkForWinner has named the second
C17_Witness ==
    /\ response.op = "checkForWinner"
    /\ response.player = 1
    /\ TotalPoints(0) = 9
    /\ TotalPoints(1) >= 10
    /\ Len(players[2].devCards) > 0


(***************************************************************************)
(* Board generation.                                                       *)
(***************************************************************************)
\* GameManager::createGame: a new game in WaitingForPlayers whose board is
\* generateRandomBoard's, the two shuffles having produced the k-th rotation
\* of the terrain list and the j-th rotation of the token list
createGame(k, j) ==
    LET res == Rotate(STANDARD_RESOURCES, k)
        nums == Rotate(STANDARD_NUMBERS, j)
    IN  /\ phase' = "WaitingForPlayers"
        /\ currentPlayerIndex' = 0
        /\ players' = <<>>
        /\ hexes' = GenerateHexes(res, nums)
        /\ robberLocation' = GenerateRobberLocation(res)
        /\ vertices' = [key \in BoardKeys |-> EmptyVertex]
        /\ edges' = [key \in BoardKeys |-> EmptyEdge]
        /\ devCardDeck' = DevCardDeckList
        /\ lastRoll' = <<>>
        /\ devCardPlayedThisTurn' = FALSE
        /\ tradeOffers' = <<>>
        /\ nextTradeId' = 0
        /\ achievements' = NoTitles
        /\ response' = Ok("http", "createGame", NoPlayer, <<k, j>>)
        /\ turnsEnded' = 0
        /\ UNCHANGED <<mutex, threads, achievements, executor>>

NextBoard ==
    \/ \E k \in 0..MaxResourceShuffle, j \in 0..MaxNumberShuffle : createGame(k, j)

SpecBoard == Init /\ [][NextBoard]_vars

\* C18: every generated board has exactly 19 land hexes, exactly one desert
\* with token 0 that holds the robber (robberLocation is its coordinate), and
\* 18 other hexes whose tokens are 2 and 12 once, 3..6 and 8..11 twice and
\* never 7, on 4 forest, 3 hills, 4 fields, 4 pasture and 3 mountains
C18_StandardBoard ==
    response.op = "createGame" =>
        LET Of(type) == {h \in DOMAIN hexes : hexes[h].type = type}
            Land == DOMAIN hexes \ Of("Desert")
            With(n) == {h \in Land : hexes[h].numberToken = n}
        IN  /\ Cardinality(DOMAIN hexes) = 19
            /\ Cardinality(Of("Desert")) = 1
            /\ \A h \in Of("Desert") :
                  /\ hexes[h].numberToken = 0
                  /\ hexes[h].hasRobber
                  /\ robberLocation = h
            /\ \A h \in Land : ~hexes[h].hasRobber
            /\ Cardinality(Land) = 18
            /\ \A h \in Land : hexes[h].numberToken \in (2..12) \ {7}
            /\ \A n \in {2, 12} : Cardinality(With(n)) = 1
            /\ \A n \in {3, 4, 5, 6, 8, 9, 10, 11} : Cardinality(With(n)) = 2
            /\ Cardinality(Of("Forest")) = 4
            /\ Cardinality(Of("Hills")) = 3
            /\ Cardinality(Of("Fields")) = 4
            /\ Cardinality(Of("Pasture")) = 4
            /\ Cardinality(Of("Mountains")) = 3

\* a board was generated whose desert is neither the first nor the last hex
\* placed, so that tokens were dealt on both sides of it
C18_Witness ==
    /\ response.op = "createGame"
    /\ robberLocation \notin {LAND_HEX_COORDS[1], LAND_HEX_COORDS[Len(LAND_HEX_COORDS)]}
    /\ hexes[LAND_HEX_COORDS[1]].numberToken # 0
    /\ hexes[LAND_HEX_COORDS[Len(LAND_HEX_COORDS)]].numberToken # 0


(***************************************************************************)
(* The phase lifecycle.                                                    *)
(***************************************************************************)
\* the phase changes of the lifecycle; Finished may follow any phase
LifecycleSteps ==
    {<<"WaitingForPlayers", "Setup">>, <<"Setup", "SetupReverse">>,
     <<"SetupReverse", "Rolling">>, <<"Rolling", "Robber">>,
     <<"Rolling", "MainTurn">>, <<"Robber", "MainTurn">>,
     <<"MainTurn", "Rolling">>}

\* C19: the phase changes only along the lifecycle, so that Rolling is first
\* entered from SetupReverse, after Setup
C19_PhaseLifecycle ==
    [][phase' # phase =>
          \/ <<phase, phase'>> \in LifecycleSteps
          \/ phase' = "Finished"]_vars

\* the part of C19 that holds: once the game has left WaitingForPlayers the
\* phase changes only along the lifecycle
C19_AfterStartPart ==
    [][(phase' # phase /\ phase # "WaitingForPlayers") =>
          \/ <<phase, phase'>> \in LifecycleSteps
          \/ phase' = "Finished"]_vars


(***************************************************************************)
(* Commands that name a target.                                            *)
(***************************************************************************)
\* a successful command of the tool paths that names a coordinate
NamesCoordinate(ops) ==
    /\ response'.ok
    /\ response'.path # "http"
    /\ response'.op \in ops

\* C20: a build or move-robber command that names a coordinate off the board,
\* or a steal target outside the roster, fails: no such command succeeds,
\* spends resources or pieces, or moves the robber
C20_UnknownTargetRejected ==
    [][/\ NamesCoordinate({"build_road", "build_settlement", "build_city"}) =>
             response'.args \in BoardKeys
       /\ NamesCoordinate({"move_robber"}) =>
             /\ response'.args[1] \in LandHexes
             /\ response'.args[2] \in {NoPlayer} \cup {players[i].id : i \in 1..Len(players)}]_vars

\* the robber's part of C20 alone
C20_RobberPart ==
    [][NamesCoordinate({"move_robber"}) => response'.args[1] \in LandHexes]_vars

\* the steal target's part of C20 alone
C20_StealPart ==
    [][NamesCoordinate({"move_robber"}) =>
          response'.args[2] \in {NoPlayer} \cup {players[i].id : i \in 1..Len(players)}]_vars

(***************************************************************************)
(* Resource hands under trades with any integer amounts.                   *)
(***************************************************************************)
\* the lobby, the turn tools and accept_trade of the AI thread, and a
\* propose_trade whose amounts are the integers the language model wrote:
\* an ordinary offer, and offers with a negative amount asked or given
NextHands ==
    \/ \E isAI \in BOOLEAN : HandleJoinGame(isAI)
    \/ \E p \in PlayerIds : HandleStartGame(p)
    \/ \E tool \in {"roll_dice", "end_turn", "accept_trade"} :
          \E a \in ExecutorArgs(tool) : ProcessSingleAITurn(tool, a)
    \/ \E a \in {<<NoPlayer, Hand(0, 0, 0, 0, 1), Hand(1, 0, 0, 0, 0)>>,
                 <<NoPlayer, EmptyHand, Hand(-3, 0, 0, 0, 0)>>,
                 <<NoPlayer, Hand(0, 0, 0, 0, -3), EmptyHand>>} :
          ProcessSingleAITurn("propose_trade", a)

SpecHands == Init /\ [][NextHands]_vars

\* C21: every resource counter of every player is non-negative in every
\* reachable state
C21_ResourcesNonNegative ==
    \A i \in 1..Len(players) : \A r \in Resources : players[i].resources[r] >= 0

(***************************************************************************)
(* The executor of the AI turns: its registry and its thread (server.cpp   *)
(* 1145-1215, ai_agent.cpp 1497-1527 and 1591-1768).                       *)
(***************************************************************************)
\* handleStartAITurns, handleStopAITurns, handleGetAITurnStatus: the game is
\* found and the handler goes for aiExecutorsMutex
ReceiveAI(t, op) ==
    /\ threads[t].pc = "idle"
    /\ \A u \in HandlerThreads : u < t => threads[u].pc # "idle"
    /\ threads' = [threads EXCEPT ![t] = [pc |-> "registry", op |-> op, p |-> NoPlayer, a |-> <<>>]]
    /\ UNCHANGED <<gameVars, response, turnsEnded, mutex, executor>>

\* handleEndTurn under the lock of the game: the turn ends, and when the next
\* player is an AI the handler goes for the executor still holding the lock
EndTurnBody(t) ==
    /\ threads[t].pc = "body"
    /\ threads[t].op = "end_turn"
    /\ EndTurn("http", threads[t].p)
    /\ IF response'.ok /\ players[currentPlayerIndex' + 1].isAI
       THEN /\ threads' = [threads EXCEPT ![t].pc = "registry"]
            /\ UNCHANGED mutex
       ELSE /\ threads' = [threads EXCEPT ![t] = Idle]
            /\ mutex' = NoThread
    /\ UNCHANGED executor

\* std::lock_guard<std::mutex> lock(aiExecutorsMutex): getOrCreateAIExecutor
\* finds or makes the executor and unlocks; handleStopAITurns keeps the lock
\* and returns at once when there is no executor
LockRegistry(t) ==
    /\ threads[t].pc = "registry"
    /\ executor.registryMutex = NoThread
    /\ IF threads[t].op = "ai/stop"
       THEN IF executor.created
            THEN /\ executor' = [executor EXCEPT !.registryMutex = t, !.shouldStop = TRUE]
                 /\ threads' = [threads EXCEPT ![t].pc = "join"]
                 /\ UNCHANGED response
            ELSE /\ response' = Ok("http", "ai/stop", NoPlayer, <<>>)
                 /\ threads' = [threads EXCEPT ![t] = Idle]
                 /\ UNCHANGED executor
       ELSE IF threads[t].op = "ai/status"
            THEN /\ executor' = [executor EXCEPT !.created = TRUE]
                 /\ response' = Ok("http", "ai/status", NoPlayer, <<executor.status>>)
                 /\ threads' = [threads EXCEPT ![t] = Idle]
            ELSE /\ executor' = [executor EXCEPT !.created = TRUE]
                 /\ threads' = [threads EXCEPT ![t].pc = "start"]
                 /\ UNCHANGED response
    /\ UNCHANGED <<gameVars, turnsEnded, mutex>>

\* AITurnExecutor::startProcessing, called by handleStartAITurns and, under the
\* lock of the game, by handleEndTurn: nothing when the executor is processing
\* or no AI turn is pending; else the old thread, which has ended, is joined
\* and a new one runs processAITurns.  The handler returns.
startProcessing(t) ==
    /\ threads[t].pc = "start"
    /\ LET starts == executor.status # "Processing" /\ hasAIPendingTurns
           me == [threads EXCEPT ![t] = Idle]
       IN  /\ starts => threads[AIThread].pc = "idle"
           /\ executor' = IF starts
                          THEN [executor EXCEPT !.shouldStop = FALSE,
                                                !.status = "Processing",
                                                !.joinable = TRUE, !.processing = @ + 1]
                          ELSE executor
           /\ threads' = IF starts
                         THEN [me EXCEPT ![AIThread] = [Idle EXCEPT !.pc = "check"]]
                         ELSE me
           /\ IF threads[t].op = "ai/start"
              THEN response' = Ok("http", "ai/start", NoPlayer, <<starts>>)
              ELSE UNCHANGED response
    /\ mutex' = IF mutex = t THEN NoThread ELSE mutex
    /\ UNCHANGED <<gameVars, turnsEnded>>

\* AITurnExecutor::stopProcessing after shouldStop = true: processingThread.join()
\* returns when the thread has ended; then the status is Idle, and
\* handleStopAITurns unlocks aiExecutorsMutex and returns
stopProcessing(t) ==
    /\ threads[t].pc = "join"
    /\ threads[AIThread].pc = "idle"
    /\ executor' = [executor EXCEPT !.registryMutex = NoThread, !.status = "Idle",
                                    !.joinable = FALSE]
    /\ threads' = [threads EXCEPT ![t] = Idle]
    /\ response' = Ok("http", "ai/stop", NoPlayer, <<>>)
    /\ UNCHANGED <<gameVars, turnsEnded, mutex>>

\* processAITurns and the top of the loop of processSingleAITurn: the thread
\* ends with status Completed when it shall stop or no AI turn is pending,
\* else it goes for the lock of the game
processAITurns ==
    /\ threads[AIThread].pc = "check"
    /\ IF executor.shouldStop \/ ~hasAIPendingTurns
       THEN /\ executor' = [executor EXCEPT !.status = "Completed", !.processing = @ - 1]
            /\ threads' = [threads EXCEPT ![AIThread] = Idle]
       ELSE /\ threads' = [threads EXCEPT ![AIThread] =
                             [pc |-> "lock", op |-> "executor", p |-> currentPlayerIndex,
                              a |-> <<>>]]
            /\ UNCHANGED executor
    /\ UNCHANGED <<gameVars, response, turnsEnded, mutex>>

\* processSingleAITurn under the lock: isMyTurn is read again, the tool runs,
\* the lock_guard goes out of scope and the loop goes round
processSingleAITurn(tool, a) ==
    /\ threads[AIThread].pc = "body"
    /\ executor.status = "Processing"
    /\ IF currentPlayerIndex # threads[AIThread].p
       THEN UNCHANGED <<gameVars, response, turnsEnded>>
       ELSE executeToolCall(threads[AIThread].p, tool, a)
    /\ mutex' = NoThread
    /\ threads' = [threads EXCEPT ![AIThread].pc = "check"]
    /\ UNCHANGED executor

NextExecutor ==
    \/ \E t \in HandlerThreads, op \in {"join", "start", "end_turn"}, p \in SeatInputs :
          \E a \in RequestArgs(op) : Receive(t, op, p, a)
    \/ \E t \in HandlerThreads, op \in {"ai/start", "ai/stop", "ai/status"} : ReceiveAI(t, op)
    \/ \E t \in HandlerThreads : Acquire(t)
    \/ \E t \in HandlerThreads : threads[t].op # "end_turn" /\ Body(t)
    \/ \E t \in HandlerThreads : EndTurnBody(t)
    \/ \E t \in HandlerThreads : LockRegistry(t)
    \/ \E t \in HandlerThreads : startProcessing(t)
    \/ \E t \in HandlerThreads : stopProcessing(t)
    \/ processAITurns
    \/ AIAcquire
    \/ \E tool \in {"roll_dice", "end_turn"} : \E a \in ExecutorArgs(tool) : processSingleAITurn(tool, a)

SpecExecutor == Init /\ [][NextExecutor]_vars

\* the thread that thread t waits for: the holder of the mutex it wants to
\* lock, or the AI thread it joins; NoThread when t can go on
WaitsOn(t) ==
    IF t = NoThread THEN NoThread
    ELSE IF threads[t].pc = "lock" /\ mutex # t THEN mutex
    ELSE IF threads[t].pc = "registry" THEN executor.registryMutex
    ELSE IF threads[t].pc = "join" /\ threads[AIThread].pc # "idle" THEN AIThread
    ELSE NoThread

\* C23: no threads wait on each other in a cycle among the mutex of the game,
\* aiExecutorsMutex and the join of the AI thread, so every request returns
C23_NoWaitCycle ==
    \A t \in ThreadIds :
        /\ WaitsOn(WaitsOn(t)) # t
        /\ WaitsOn(WaitsOn(WaitsOn(t))) # t
        /\ WaitsOn(WaitsOn(WaitsOn(WaitsOn(t)))) # t

(***************************************************************************)
(* Setup seating: advanceSetupPhase (game_logic.cpp) called turn after     *)
(* turn from the first seat of the first placement round.                  *)
(***************************************************************************)
\* advanceSetupPhase with the last seat of the first round handing over at once
advanceSetupPhaseNoRepeat ==
    /\ IF phase = "Setup"
       THEN IF currentPlayerIndex < Len(players) - 1
            THEN /\ currentPlayerIndex' = currentPlayerIndex + 1
                 /\ UNCHANGED phase
            ELSE /\ phase' = "SetupReverse"
                 /\ currentPlayerIndex' = currentPlayerIndex - 1
       ELSE IF phase = "SetupReverse"
            THEN IF currentPlayerIndex > 0
                 THEN /\ currentPlayerIndex' = currentPlayerIndex - 1
                      /\ UNCHANGED phase
                 ELSE /\ phase' = "Rolling"
                      /\ currentPlayerIndex' = 0
            ELSE UNCHANGED <<phase, currentPlayerIndex>>
    /\ response' = IF phase \in {"Setup", "SetupReverse"}
                   THEN Ok("core", "advanceSetupPhase", currentPlayerIndex,
                           Append(IF response.op = "advanceSetupPhase"
                                  THEN response.args ELSE <<>>, currentPlayerIndex))
                   ELSE response
    /\ UNCHANGED <<players, hexes, vertices, edges, robberLocation, devCardDeck,
                   lastRoll, devCardPlayedThisTurn, tradeOffers, nextTradeId,
                   achievements, turnsEnded, mutex, threads, executor>>

\* advanceSetupPhase; the reply carries the seats whose placement turn has been
\* closed so far, oldest first
advanceSetupPhase ==
    /\ IF phase = "Setup"
       THEN IF currentPlayerIndex < Len(players) - 1
            THEN /\ currentPlayerIndex' = currentPlayerIndex + 1
                 /\ UNCHANGED phase
            ELSE /\ phase' = "SetupReverse"
                 /\ UNCHANGED currentPlayerIndex
       ELSE IF phase = "SetupReverse"
            THEN IF currentPlayerIndex > 0
                 THEN /\ currentPlayerIndex' = currentPlayerIndex - 1
                      /\ UNCHANGED phase
                 ELSE /\ phase' = "Rolling"
                      /\ currentPlayerIndex' = 0
            ELSE UNCHANGED <<phase, currentPlayerIndex>>
    /\ response' = IF phase \in {"Setup", "SetupReverse"}
                   THEN Ok("core", "advanceSetupPhase", currentPlayerIndex,
                           Append(IF response.op = "advanceSetupPhase"
                                  THEN response.args ELSE <<>>, currentPlayerIndex))
                   ELSE response
    /\ UNCHANGED <<players, hexes, vertices, edges, robberLocation, devCardDeck,
                   lastRoll, devCardPlayedThisTurn, tradeOffers, nextTradeId,
                   achievements, turnsEnded, mutex, threads, executor>>

\* the first placement turn of a game of two to maxPlayers players, human or AI
InitSeating ==
    /\ phase = "Setup"
    /\ currentPlayerIndex = 0
    /\ \E n \in 2..maxPlayers : \E ai \in [1..n -> BOOLEAN] :
          players = [i \in 1..n |-> NewPlayer(i - 1, ai[i], TRUE)]
    /\ \E k \in 0..MaxShuffle :
          LET res == Rotate(STANDARD_RESOURCES, k)
              nums == Rotate(STANDARD_NUMBERS, MaxShuffle - k)
          IN  /\ hexes = GenerateHexes(res, nums)
              /\ robberLocation = GenerateRobberLocation(res)
    /\ vertices = [k \in BoardKeys |-> EmptyVertex]
    /\ edges = [k \in BoardKeys |-> EmptyEdge]
    /\ devCardDeck = DevCardDeckList
    /\ lastRoll = <<>>
    /\ devCardPlayedThisTurn = FALSE
    /\ tradeOffers = <<>>
    /\ nextTradeId = 0
    /\ achievements = NoTitles
    /\ response = NoResponse
    /\ turnsEnded = 0
    /\ mutex = NoThread
    /\ threads = [t \in ThreadIds |-> Idle]
    /\ executor = NoExecutor

NextSeating == advanceSetupPhase

SpecSeating == InitSeating /\ [][NextSeating]_vars

\* the seats whose placement turn has been closed so far
SeatLog == IF response.op = "advanceSetupPhase" THEN response.args ELSE <<>>

\* the order of the placement turns of a game of n players
SeatingOrder(n) == [i \in 1..(2 * n) |-> IF i <= n THEN i - 1 ELSE 2 * n - i]

\* C24: from the first seat in Setup the placement turns go 0, 1, ..., n-1 in
\* Setup, then n-1, ..., 0 in SetupReverse with seat n-1 placing twice in a
\* row, and the call made at seat 0 in SetupReverse opens Rolling at seat 0, so
\* that every player has had exactly two placement turns
C24_SetupSeating ==
    LET n == Len(players)
        k == Len(SeatLog)
    IN  /\ k <= 2 * n
        /\ SeatLog = SubSeq(SeatingOrder(n), 1, k)
        /\ k < n => phase = "Setup" /\ currentPlayerIndex = SeatingOrder(n)[k + 1]
        /\ (k >= n /\ k < 2 * n) =>
              phase = "SetupReverse" /\ currentPlayerIndex = SeatingOrder(n)[k + 1]
        /\ k = 2 * n =>
              /\ phase = "Rolling"
              /\ currentPlayerIndex = 0
              /\ \A p \in PlayerIds :
                    Cardinality({i \in 1..k : SeatLog[i] = p}) = 2

\* a game of three whose setup has just been closed by the call made at seat 0
C24_Witness ==
    /\ Len(players) = 3
    /\ phase = "Rolling"
    /\ SeatLog = <<0, 1, 2, 2, 1, 0>>

(***************************************************************************)
(* Setup placements: the engine's placeSetupSettlement and placeSetupRoad  *)
(* called during the placement rounds.                                     *)
(***************************************************************************)
NextPlacement ==
    \/ advanceSetupPhase
    \/ \E c \in InputCoords : placeSetupSettlement(currentPlayerIndex, c)
    \/ \E c \in InputCoords : placeSetupRoad(currentPlayerIndex, c)

SpecPlacement == InitSeating /\ [][NextPlacement]_vars

\* C25: placeSetupRoad succeeds only for an empty edge that touches a
\* settlement of the player who places the road
C25_SetupRoadTouchesSettlement ==
    [][(response'.op = "placeSetupRoad" /\ response'.ok /\ edges' # edges) =>
          \E v \in BoardKeys :
              /\ vertices[v].ownerPlayerId = response'.player
              /\ vertices[v].building = "Settlement"
              /\ response'.args \in getValidSetupRoadLocations(v)]_vars

updateLongestRoad(len, ps, ach) ==
    LET scan[i \in 0..Len(ps)] ==
            IF i = 0
            THEN <<ach.longestRoadLength, ach.longestRoadPlayerId>>
            ELSE LET roadLength == len[ps[i].id]
                     prev == scan[i - 1]
                 IN  IF roadLength >= MinLongestRoad /\ roadLength > prev[1]
                     THEN <<roadLength, ps[i].id>>
                     ELSE prev
        new == scan[Len(ps)]
    IN  IF new[2] # ach.longestRoadPlayerId
        THEN [players |->
                 [i \in 1..Len(ps) |->
                     [ps[i] EXCEPT !.hasLongestRoad =
                         IF ps[i].id = new[2] THEN TRUE
                         ELSE IF ps[i].id = ach.longestRoadPlayerId THEN FALSE
                         ELSE @]],
              achievements |-> [ach EXCEPT !.longestRoadPlayerId = new[2],
                                           !.longestRoadLength = new[1]]]
        ELSE [players |-> ps, achievements |-> ach]

\* updateLargestArmy on a roster ps and title record ach
updateLargestArmy(ps, ach) ==
    LET scan[i \in 0..Len(ps)] ==
            IF i = 0
            THEN <<ach.largestArmySize, ach.largestArmyPlayerId>>
            ELSE LET prev == scan[i - 1]
                 IN  IF /\ ps[i].knightsPlayed >= MinLargestArmy
                        /\ ps[i].knightsPlayed > prev[1]
                     THEN <<ps[i].knightsPlayed, ps[i].id>>
                     ELSE prev
        new == scan[Len(ps)]
    IN  IF new[2] # ach.largestArmyPlayerId
        THEN [players |->
                 [i \in 1..Len(ps) |->
                     [ps[i] EXCEPT !.hasLargestArmy =
                         IF ps[i].id = new[2] THEN TRUE
                         ELSE IF ps[i].id = ach.largestArmyPlayerId THEN FALSE
                         ELSE @]],
              achievements |-> [ach EXCEPT !.largestArmyPlayerId = new[2],
                                           !.largestArmySize = new[1]]]
        ELSE [players |-> ps, achievements |-> ach]

\* a road laid by player p on the next side of the home hex, (0,0) for the
\* first player and (2,-2) for the second, and updateLongestRoad run on the
\* result
LayRoadThenUpdate(p) ==
    LET laid == Cardinality({k \in BoardKeys : RoadOf(k, p)})
        e == IF p = 0 THEN <<0, 0, laid>> ELSE <<2, -2, laid>>
    IN  /\ laid < MaxTitleRoads
        /\ e \in BoardKeys
        /\ edges' = [edges EXCEPT ![e] = [hasRoad |-> TRUE, ownerPlayerId |-> p]]
        /\ vertices' = vertices
        /\ LET r == updateLongestRoad(
                        [q \in PlayerIds |-> calculateLongestRoad(q)'],
                        [players EXCEPT ![p + 1].roadsRemaining = @ - 1],
                        achievements)
           IN  /\ players' = r.players
               /\ achievements' = r.achievements
        /\ response' = Ok("core", "updateLongestRoad", p, e)
        /\ UNCHANGED <<phase, currentPlayerIndex, hexes, robberLocation, devCardDeck,
                       lastRoll, devCardPlayedThisTurn, tradeOffers, nextTradeId,
                       turnsEnded, mutex, threads, executor>>

\* a knight played by player p and updateLargestArmy run on the result
PlayKnightThenUpdate(p) ==
    /\ players[p + 1].knightsPlayed < MaxKnights
    /\ LET r == updateLargestArmy([players EXCEPT ![p + 1].knightsPlayed = @ + 1],
                                  achievements)
       IN  /\ players' = r.players
           /\ achievements' = r.achievements
    /\ response' = Ok("core", "updateLargestArmy", p, <<>>)
    /\ UNCHANGED <<phase, currentPlayerIndex, hexes, vertices, edges, robberLocation,
                   devCardDeck, lastRoll, devCardPlayedThisTurn, tradeOffers,
                   nextTradeId, turnsEnded, mutex, threads, executor>>

\* two AI players in their turns, each holding the wood and brick of
\* MaxTitleRoads roads, with no road on the board and no knight played
InitTitles ==
    /\ phase = "MainTurn"
    /\ currentPlayerIndex = 0
    /\ players = [i \in 1..2 |->
                     [NewPlayer(i - 1, TRUE, TRUE) EXCEPT
                         !.resources = Hand(MaxTitleRoads, MaxTitleRoads, 0, 0, 0)]]
    /\ hexes = GenerateHexes(STANDARD_RESOURCES, STANDARD_NUMBERS)
    /\ robberLocation = GenerateRobberLocation(STANDARD_RESOURCES)
    /\ vertices = [k \in BoardKeys |-> EmptyVertex]
    /\ edges = [k \in BoardKeys |-> EmptyEdge]
    /\ devCardDeck = DevCardDeckList
    /\ lastRoll = <<>>
    /\ devCardPlayedThisTurn = FALSE
    /\ tradeOffers = <<>>
    /\ nextTradeId = 0
    /\ achievements = NoTitles
    /\ response = NoResponse
    /\ turnsEnded = 0
    /\ mutex = NoThread
    /\ threads = [t \in ThreadIds |-> Idle]
    /\ executor = NoExecutor

NextTitles ==
    \/ \E p \in PlayerIds : LayRoadThenUpdate(p)
    \/ \E p \in PlayerIds : PlayKnightThenUpdate(p)

SpecTitles == InitTitles /\ [][NextTitles]_vars

\* C27: at most one player has hasLongestRoad and it is longestRoadPlayerId;
\* the title moves to a player only when that player's road is at least 5 long
\* and strictly longer than the road of the player who held the title
C27_LongestRoadTitle ==
    [][response'.op = "updateLongestRoad" =>
          /\ \A p \in PlayerIds :
                players'[p + 1].hasLongestRoad <=> p = achievements'.longestRoadPlayerId
          /\ achievements'.longestRoadPlayerId # achievements.longestRoadPlayerId =>
                \E q \in PlayerIds :
                    /\ q = achievements'.longestRoadPlayerId
                    /\ calculateLongestRoad(q)' >= MinLongestRoad
                    /\ \A h \in PlayerIds :
                          h = achievements.longestRoadPlayerId =>
                             calculateLongestRoad(q)' > calculateLongestRoad(h)']_vars

\* C28: at most one player has hasLargestArmy and it is largestArmyPlayerId;
\* the title moves to a player only when that player has played at least 3
\* knights and strictly more than the player who held the title
C28_LargestArmyTitle ==
    [][response'.op = "updateLargestArmy" =>
          /\ \A p \in PlayerIds :
                players'[p + 1].hasLargestArmy <=> p = achievements'.largestArmyPlayerId
          /\ achievements'.largestArmyPlayerId # achievements.largestArmyPlayerId =>
                /\ achievements'.largestArmyPlayerId \in PlayerIds
                /\ players'[achievements'.largestArmyPlayerId + 1].knightsPlayed
                      >= MinLargestArmy
                /\ achievements.largestArmyPlayerId # NoPlayer =>
                      players'[achievements'.largestArmyPlayerId + 1].knightsPlayed >
                         players'[achievements.largestArmyPlayerId + 1].knightsPlayed]_vars

(***************************************************************************)
(* Titles after build commands: the build_road tool on its two code paths, *)
(* naming the sides of hex (0,0), and the end of a turn.                   *)
(***************************************************************************)
NextAward ==
    \/ \E p \in PlayerIds, d \in 0..(MaxTitleRoads - 1) :
          HandleExecuteAITool(p, "build_road", <<0, 0, d>>)
    \/ \E d \in 0..(MaxTitleRoads - 1) : ProcessSingleAITurn("build_road", <<0, 0, d>>)
    \/ \E p \in PlayerIds : HandleExecuteAITool(p, "end_turn", <<>>)

SpecAward == InitTitles /\ [][NextAward]_vars

\* C29: when a command that changes roads or buildings has succeeded, the
\* hasLongestRoad flags and the title record are what updateLongestRoad
\* computes on the state the command leaves
C29_TitlesAfterBuild ==
    (response.ok /\ response.op \in {"build_road", "build_settlement", "build_city"}) =>
        LET r == updateLongestRoad([q \in PlayerIds |-> calculateLongestRoad(q)],
                                   players, achievements)
        IN  /\ r.players = players
            /\ r.achievements = achievements

(***************************************************************************)
(* The end of the game: commands sent in positions late in a game.         *)
(***************************************************************************)
NextFinish ==
    \/ \E p \in PlayerIds : HandleEndTurn(p)
    \/ \E p \in PlayerIds, d1 \in Die1, d2 \in Die2 : HandleRollDice(p, d1, d2)
    \/ \E p \in PlayerIds : HandleBuySettlement(p)

SpecFinish == InitWinner /\ [][NextFinish]_vars

\* C30: when a command has returned and some player has 10 or more points in
\* total, hidden victory-point cards included, the phase is Finished
C30_WinnerFinishes ==
    (response.ok /\ response.path = "http"
        /\ \E q \in PlayerIds : TotalPoints(q) >= WinningPoints)
    => phase = "Finished"

(***************************************************************************)
(* Development cards: buy_dev_card on its three code paths, in positions   *)
(* late in a game where few cards are left on the draw pile.               *)
(***************************************************************************)
\* two AI players in MainTurn: the pile is what is left of a shuffled deck
\* after all but k cards were drawn from its back, the players hold the drawn
\* cards in turn, the first player holds some wheat, sheep and ore and the
\* second the price of one card
InitPile ==
    \E k \in 0..MaxPile, shuffle \in 0..MaxShuffle,
       wheat \in 0..MaxPurse, sheep \in 0..MaxPurse, ore \in 0..MaxPurse :
        LET deck == Rotate(DevCardDeckList, shuffle)
            drawn == [j \in 1..(Len(deck) - k) |-> <<j, deck[Len(deck) + 1 - j]>>]
            held(i) == LET mine == SelectSeq(drawn, LAMBDA x : x[1] % 2 = i)
                       IN  [j \in 1..Len(mine) |-> mine[j][2]]
        IN  /\ phase = "MainTurn"
            /\ currentPlayerIndex = 0
            /\ players = [i \in 1..2 |->
                             [NewPlayer(i - 1, TRUE, TRUE) EXCEPT
                                 !.resources = IF i = 1 THEN Hand(0, 0, wheat, sheep, ore)
                                               ELSE DEV_CARD_COST,
                                 !.devCards = held(i - 1)]]
            /\ devCardDeck = SubSeq(deck, 1, k)
            /\ hexes = GenerateHexes(STANDARD_RESOURCES, STANDARD_NUMBERS)
            /\ robberLocation = GenerateRobberLocation(STANDARD_RESOURCES)
            /\ vertices = [c \in BoardKeys |-> EmptyVertex]
            /\ edges = [c \in BoardKeys |-> EmptyEdge]
            /\ lastRoll = <<>>
            /\ devCardPlayedThisTurn = FALSE
            /\ tradeOffers = <<>>
            /\ nextTradeId = 0
            /\ achievements = NoTitles
            /\ response = NoResponse
            /\ turnsEnded = 0
            /\ mutex = NoThread
            /\ threads = [t \in ThreadIds |-> Idle]
            /\ executor = NoExecutor

NextPile ==
    \/ \E p \in PlayerIds : HandleBuyDevCard(p)
    \/ \E p \in PlayerIds : HandleExecuteAITool(p, "buy_dev_card", <<>>)
    \/ ProcessSingleAITurn("buy_dev_card", <<>>)
    \/ \E p \in PlayerIds : HandleEndTurn(p)
    \/ \E p \in PlayerIds, d1 \in Die1, d2 \in Die2 : HandleRollDice(p, d1, d2)

SpecPile == InitPile /\ [][NextPile]_vars

\* cards of a kind on the pile and in the players' hands
CardsOfKind(kind) ==
    Cardinality({i \in 1..Len(devCardDeck) : devCardDeck[i] = kind})
    + Cardinality({<<q, i>> \in PlayerIds \X (1..Len(DevCardDeckList)) :
                      i <= Len(players[q + 1].devCards)
                      /\ players[q + 1].devCards[i] = kind})

\* C31: a purchase succeeds only in MainTurn for a buyer holding 1 wheat, 1
\* sheep and 1 ore with a card on the pile; it takes exactly these three units
\* and moves exactly the top card of the pile to the buyer's hand; a purchase
\* that fails, as with an empty pile, changes no hand and no pile; and the
\* cards of each kind on the pile and in the hands stay 14 knights, 5 victory
\* points and 2 each of road building, year of plenty and monopoly
C31_BuyDevCard ==
    [][/\ \A kind \in {DevCardDeckList[i] : i \in 1..Len(DevCardDeckList)} :
             CardsOfKind(kind)' =
                Cardinality({i \in 1..Len(DevCardDeckList) : DevCardDeckList[i] = kind})
       /\ (response'.op = "buy_dev_card" /\ response'.ok) =>
             \E p \in PlayerIds :
                /\ p = response'.player
                /\ phase = "MainTurn"
                /\ \A r \in Resources : players[p + 1].resources[r] >= DEV_CARD_COST[r]
                /\ Len(devCardDeck) > 0
                /\ \A r \in Resources :
                      players'[p + 1].resources[r] =
                         players[p + 1].resources[r] - DEV_CARD_COST[r]
                /\ DEV_CARD_COST = Hand(0, 0, 1, 1, 1)
                /\ devCardDeck' = SubSeq(devCardDeck, 1, Len(devCardDeck) - 1)
                /\ players'[p + 1].devCards =
                      Append(players[p + 1].devCards, devCardDeck[Len(devCardDeck)])
                /\ \A q \in PlayerIds \ {p} : players'[q + 1] = players[q + 1]
       /\ (response'.op = "buy_dev_card" /\ ~response'.ok) =>
             /\ players' = players
             /\ devCardDeck' = devCardDeck]_vars

\* the second player has bought the last card of the pile on the executor's
\* path and holds it
C31_Witness ==
    /\ response.op = "buy_dev_card"
    /\ response.ok
    /\ response.path = "executor"
    /\ response.player = 1
    /\ Len(devCardDeck) = 0
    /\ players[2].devCards # <<>>
    /\ players[2].resources = EmptyHand

C33_CountersMirrorBoard ==
    \A p \in PlayerIds :
        LET me == players[p + 1]
            own(kind) == Cardinality({k \in BoardKeys :
                                         /\ vertices[k].ownerPlayerId = p
                                         /\ vertices[k].building = kind})
            roads == Cardinality({k \in BoardKeys : RoadOf(k, p)})
        IN  /\ me.settlementsRemaining = InitialSettlements - own("Settlement")
            /\ me.citiesRemaining = InitialCities - own("City")
            /\ me.roadsRemaining = InitialRoads - roads
            /\ me.settlementsRemaining \in 0..InitialSettlements
            /\ me.citiesRemaining \in 0..InitialCities
            /\ me.roadsRemaining \in 0..InitialRoads

(***************************************************************************)
(* The game-state view of a player (ai_agent.cpp).                         *)
(***************************************************************************)
\* getAIGameState, otherPlayers: the public fields of every other player of
\* the roster; the visible points start at 0 and get 2 for each title
otherPlayers(playerId) ==
    LET others == SelectSeq(players, LAMBDA pl : pl.id # playerId)
    IN  [i \in 1..Len(others) |->
            [id |-> others[i].id,
             resourceCount |-> LET h == others[i].resources
                               IN  h.wood + h.brick + h.wheat + h.sheep + h.ore,
             devCardCount |-> Len(others[i].devCards),
             knightsPlayed |-> others[i].knightsPlayed,
             hasLongestRoad |-> others[i].hasLongestRoad,
             hasLargestArmy |-> others[i].hasLargestArmy,
             visibleVictoryPoints |-> (IF others[i].hasLongestRoad THEN 2 ELSE 0)
                                      + (IF others[i].hasLargestArmy THEN 2 ELSE 0)]]

\* a caller asks for the view of a player of the roster once
CallGetAIGameState(playerId) ==
    /\ response = NoResponse
    /\ \E i \in 1..Len(players) : players[i].id = playerId
    /\ response' = [ok |-> TRUE, path |-> "core", op |-> "getAIGameState",
                    player |-> playerId, args |-> otherPlayers(playerId)]
    /\ UNCHANGED <<gameVars, turnsEnded, mutex, threads, executor>>

NextView == \E p \in PlayerIds : CallGetAIGameState(p)

SpecView == InitWinner /\ [][NextView]_vars

\* C34: the visible victory points that a view reports for an opponent are
\* calculateVisibleVictoryPoints of that opponent: the opponent's settlements
\* and cities on the board plus the title bonuses
C34_ViewVisiblePoints ==
    response.op = "getAIGameState" =>
        \A i \in 1..Len(response.args) :
            response.args[i].visibleVictoryPoints
                = calculateVisibleVictoryPoints(response.args[i].id)

(***************************************************************************)
(* Pieces on the board.                                                    *)
(***************************************************************************)
\* C35: a road on an edge stays and keeps its owner; a building on a vertex
\* keeps its owner, is never removed, and a city never becomes a settlement
C35_PiecesPermanent ==
    [][\A k \in BoardKeys :
          /\ edges[k].hasRoad =>
                /\ edges'[k].hasRoad
                /\ edges'[k].ownerPlayerId = edges[k].ownerPlayerId
          /\ vertices[k].building # "None" =>
                /\ vertices'[k].ownerPlayerId = vertices[k].ownerPlayerId
                /\ vertices'[k].building # "None"
                /\ vertices[k].building = "City" => vertices'[k].building = "City"]_vars

(***************************************************************************)
(* The AI thread when every call of the language model fails               *)
(* (ai_agent.cpp 1601-1768): the tool call is replaced by end_turn.        *)
(***************************************************************************)
\* int maxActions = 20: the passes of the loop of one processSingleAITurn
maxActions == 20

\* processAITurns, the condition of its loop: the thread ends with status
\* Completed when it shall stop or no AI turn is pending
processAITurnsLoop ==
    /\ threads[AIThread].pc = "check"
    /\ IF executor.shouldStop \/ ~hasAIPendingTurns
       THEN /\ executor' = [executor EXCEPT !.status = "Completed", !.processing = @ - 1]
            /\ threads' = [threads EXCEPT ![AIThread] = Idle]
       ELSE /\ threads' = [threads EXCEPT ![AIThread].pc = "call"]
            /\ UNCHANGED executor
    /\ UNCHANGED <<gameVars, response, turnsEnded, mutex>>

\* processAITurns, the body of its loop: playerId is read and
\* processSingleAITurn looks the player up; it returns false, and the thread
\* ends with status Error, when that player is no AI player
processSingleAITurnEntry ==
    /\ threads[AIThread].pc = "call"
    /\ IF currentPlayerIndex \in PlayerIds /\ getPlayerById(currentPlayerIndex).isAI
       THEN /\ threads' = [threads EXCEPT ![AIThread] =
                             [pc |-> "single", op |-> "executor",
                              p |-> currentPlayerIndex, a |-> <<0>>]]
            /\ UNCHANGED executor
       ELSE /\ executor' = [executor EXCEPT !.status = "Error", !.processing = @ - 1]
            /\ threads' = [threads EXCEPT ![AIThread] = Idle]
    /\ UNCHANGED <<gameVars, response, turnsEnded, mutex>>

\* one pass of the loop of processSingleAITurn: it returns true after
\* maxActions passes, on shouldStop and when the turn is not the player's;
\* else, under the lock of the game, the failed call of the language model is
\* replaced by end_turn, which ends the loop when it succeeds
processSingleAITurnFallback ==
    /\ threads[AIThread].pc = "single"
    /\ LET actionCount == threads[AIThread].a[1]
           playerId == threads[AIThread].p
       IN  IF \/ actionCount >= maxActions
              \/ executor.shouldStop
              \/ currentPlayerIndex # playerId
           THEN /\ threads' = [threads EXCEPT ![AIThread].pc = "check"]
                /\ UNCHANGED <<gameVars, response, turnsEnded>>
           ELSE /\ mutex = NoThread
                /\ EndTurn("executor", playerId)
                /\ threads' = IF response'.ok
                              THEN [threads EXCEPT ![AIThread].pc = "check"]
                              ELSE [threads EXCEPT ![AIThread].a = <<actionCount + 1>>]
    /\ UNCHANGED <<mutex, executor>>

\* a started game of two players whose current player is an AI player, in one
\* of the three phases of a turn, with the AI thread just started
InitFallback ==
    \E ai0 \in BOOLEAN, ai1 \in BOOLEAN, seat \in 0..1,
       ph \in {"Rolling", "Robber", "MainTurn"}, d1 \in Die1, d2 \in Die2 :
        /\ (IF seat = 0 THEN ai0 ELSE ai1)
        /\ (ph = "Robber") = (d1 + d2 = RobberTotal)
        /\ phase = ph
        /\ currentPlayerIndex = seat
        /\ players = <<[NewPlayer(0, ai0, TRUE) EXCEPT
                           !.resources = [r \in Resources |-> StartingAmount]],
                       [NewPlayer(1, ai1, TRUE) EXCEPT
                           !.resources = [r \in Resources |-> StartingAmount]]>>
        /\ hexes = GenerateHexes(STANDARD_RESOURCES, STANDARD_NUMBERS)
        /\ robberLocation = GenerateRobberLocation(STANDARD_RESOURCES)
        /\ vertices = [k \in BoardKeys |-> EmptyVertex]
        /\ edges = [k \in BoardKeys |-> EmptyEdge]
        /\ devCardDeck = DevCardDeckList
        /\ lastRoll = IF ph = "Rolling" THEN <<>> ELSE <<d1, d2>>
        /\ devCardPlayedThisTurn = FALSE
        /\ tradeOffers = <<>>
        /\ nextTradeId = 0
        /\ achievements = NoTitles
        /\ response = NoResponse
        /\ turnsEnded = 0
        /\ mutex = NoThread
        /\ threads = [t \in ThreadIds |->
                         IF t = AIThread THEN [Idle EXCEPT !.pc = "check"] ELSE Idle]
        /\ executor = [NoExecutor EXCEPT !.created = TRUE, !.status = "Processing",
                                         !.joinable = TRUE, !.processing = 1]

\* the steps of the AI thread
AIThreadSteps ==
    \/ processAITurnsLoop
    \/ processSingleAITurnEntry
    \/ processSingleAITurnFallback

\* the AI thread, clients that roll or end the turn for the current player,
\* and clients that ask the executor to stop
NextFallback ==
    \/ processAITurnsLoop
    \/ processSingleAITurnEntry
    \/ processSingleAITurnFallback
    \/ \E p \in PlayerIds, d1 \in Die1, d2 \in Die2 :
          mutex = NoThread /\ HandleRollDice(p, d1, d2)
    \/ \E p \in PlayerIds : mutex = NoThread /\ HandleEndTurn(p)
    \/ \E t \in HandlerThreads : ReceiveAI(t, "ai/stop")
    \/ \E t \in HandlerThreads : LockRegistry(t)
    \/ \E t \in HandlerThreads : stopProcessing(t)

\* the operating system runs the AI thread, and a handler thread that has
\* received a stop request, as long as it can take a step
SpecFallback ==
    /\ InitFallback
    /\ [][NextFallback]_vars
    /\ WF_vars(AIThreadSteps)
    /\ WF_vars(\E t \in HandlerThreads : LockRegistry(t))
    /\ WF_vars(\E t \in HandlerThreads : stopProcessing(t))

\* C36: with every call of the language model failing, while the AI thread
\* processes the turn of an AI player in Rolling, Robber or MainTurn and no
\* stop is requested, eventually the turn passes to another player, or the
\* processing ends with status Completed or Error, or a stop is requested
C36_FallbackProgress ==
    \A p \in 0..1 :
        (/\ currentPlayerIndex = p
         /\ players[p + 1].isAI
         /\ phase \in {"Rolling", "Robber", "MainTurn"}
         /\ executor.status = "Processing"
         /\ threads[AIThread].pc # "idle"
         /\ ~executor.shouldStop
         /\ turnsEnded < MaxTurns)
            ~> (\/ currentPlayerIndex # p
                \/ executor.status \in {"Completed", "Error"}
                \/ executor.shouldStop)

(***************************************************************************)
(* Concurrent calls of AITurnExecutor::startProcessing (ai_agent.cpp       *)
(* 1497-1517), statement by statement: handleStartAITurns calls it with no *)
(* lock held, handleEndTurn with the lock of the game held.                *)
(***************************************************************************)
\* the caller returns: handleStartAITurns reports started, handleEndTurn
\* leaves the scope of its lock_guard
ReturnFromStart(t, started) ==
    /\ IF threads[t].op = "ai/start"
       THEN response' = Ok("http", "ai/start", NoPlayer, <<started>>)
       ELSE UNCHANGED response
    /\ mutex' = IF mutex = t THEN NoThread ELSE mutex

\* startProcessing: the two tests that return false
startProcessingCheck(t) ==
    /\ threads[t].pc = "start"
    /\ IF executor.status = "Processing" \/ ~hasAIPendingTurns
       THEN /\ ReturnFromStart(t, FALSE)
            /\ threads' = [threads EXCEPT ![t] = Idle]
       ELSE /\ threads' = [threads EXCEPT ![t].pc = "set"]
            /\ UNCHANGED <<response, mutex>>
    /\ UNCHANGED <<gameVars, turnsEnded, executor>>

\* startProcessing: shouldStop = false, status = Processing, and the test of
\* processingThread.joinable()
startProcessingSet(t) ==
    /\ threads[t].pc = "set"
    /\ executor' = [executor EXCEPT !.shouldStop = FALSE, !.status = "Processing"]
    /\ threads' = [threads EXCEPT ![t].pc = IF executor.joinable THEN "join" ELSE "spawn"]
    /\ UNCHANGED <<gameVars, response, turnsEnded, mutex>>

\* startProcessing: processingThread.join() returns when the thread has ended
startProcessingJoin(t) ==
    /\ threads[t].pc = "join"
    /\ threads[t].op # "ai/stop"
    /\ executor.processing = 0
    /\ executor' = [executor EXCEPT !.joinable = FALSE]
    /\ threads' = [threads EXCEPT ![t].pc = "spawn"]
    /\ UNCHANGED <<gameVars, response, turnsEnded, mutex>>

\* startProcessing: std::thread runs processAITurns and the call returns true;
\* of several threads that run at once the slot AIThread follows the first
startProcessingSpawn(t) ==
    /\ threads[t].pc = "spawn"
    /\ executor' = [executor EXCEPT !.joinable = TRUE, !.processing = @ + 1]
    /\ ReturnFromStart(t, TRUE)
    /\ threads' = [threads EXCEPT
                      ![t] = Idle,
                      ![AIThread] = IF @.pc = "idle" THEN [Idle EXCEPT !.pc = "check"] ELSE @]
    /\ UNCHANGED <<gameVars, turnsEnded>>

\* a started game of two players in one of the three phases of a turn, with
\* an executor in the registry that has not run yet
InitStart ==
    \E ai0 \in BOOLEAN, ai1 \in BOOLEAN, seat \in 0..1,
       ph \in {"Rolling", "Robber", "MainTurn"}, d1 \in Die1, d2 \in Die2 :
        /\ (ph = "Robber") = (d1 + d2 = RobberTotal)
        /\ phase = ph
        /\ currentPlayerIndex = seat
        /\ players = <<[NewPlayer(0, ai0, TRUE) EXCEPT
                           !.resources = [r \in Resources |-> StartingAmount]],
                       [NewPlayer(1, ai1, TRUE) EXCEPT
                           !.resources = [r \in Resources |-> StartingAmount]]>>
        /\ hexes = GenerateHexes(STANDARD_RESOURCES, STANDARD_NUMBERS)
        /\ robberLocation = GenerateRobberLocation(STANDARD_RESOURCES)
        /\ vertices = [k \in BoardKeys |-> EmptyVertex]
        /\ edges = [k \in BoardKeys |-> EmptyEdge]
        /\ devCardDeck = DevCardDeckList
        /\ lastRoll = IF ph = "Rolling" THEN <<>> ELSE <<d1, d2>>
        /\ devCardPlayedThisTurn = FALSE
        /\ tradeOffers = <<>>
        /\ nextTradeId = 0
        /\ achievements = NoTitles
        /\ response = NoResponse
        /\ turnsEnded = 0
        /\ mutex = NoThread
        /\ threads = [t \in ThreadIds |-> Idle]
        /\ executor = [NoExecutor EXCEPT !.created = TRUE]

\* end-turn and ai/start requests on handler threads, and the AI thread
NextStart ==
    \/ \E t \in HandlerThreads, p \in PlayerIds : Receive(t, "end_turn", p, <<>>)
    \/ \E t \in HandlerThreads : ReceiveAI(t, "ai/start")
    \/ \E t \in HandlerThreads : Acquire(t)
    \/ \E t \in HandlerThreads : EndTurnBody(t)
    \/ \E t \in HandlerThreads : LockRegistry(t)
    \/ \E t \in HandlerThreads : startProcessingCheck(t)
    \/ \E t \in HandlerThreads : startProcessingSet(t)
    \/ \E t \in HandlerThreads : startProcessingJoin(t)
    \/ \E t \in HandlerThreads : startProcessingSpawn(t)
    \/ processAITurnsLoop
    \/ processSingleAITurnEntry
    \/ processSingleAITurnFallback

SpecStart == InitStart /\ [][NextStart]_vars

\* C37: at most one thread runs processAITurns for the executor of a game,
\* whatever the interleaving of the calls of startProcessing
C37_OneProcessingThread == executor.processing <= 1

(***************************************************************************)
(* The tools a view lists and the tools the executor runs (ai_agent.cpp).  *)
(***************************************************************************)
\* getAIGameState, availableTools: the names listed for a player of the roster
availableTools(playerId) ==
    LET player == getPlayerById(playerId)
        res == player.resources
        holds(card) == \E i \in 1..Len(player.devCards) : player.devCards[i] = card
        total == res.wood + res.brick + res.wheat + res.sheep + res.ore
        turnTools ==
            IF currentPlayerIndex # playerId THEN {}
            ELSE CASE phase = "Rolling" ->
                        {"roll_dice"} \cup (IF holds("Knight") THEN {"play_knight"} ELSE {})
                   [] phase = "Robber" -> {"move_robber"}
                   [] phase = "MainTurn" ->
                        (IF res.wood >= 1 /\ res.brick >= 1 /\ player.roadsRemaining > 0
                         THEN {"build_road"} ELSE {})
                        \cup (IF /\ res.wood >= 1 /\ res.brick >= 1
                                 /\ res.wheat >= 1 /\ res.sheep >= 1
                                 /\ player.settlementsRemaining > 0
                              THEN {"build_settlement"} ELSE {})
                        \cup (IF res.wheat >= 2 /\ res.ore >= 3 /\ player.citiesRemaining > 0
                              THEN {"build_city"} ELSE {})
                        \cup (IF res.wheat >= 1 /\ res.sheep >= 1 /\ res.ore >= 1
                              THEN {"buy_dev_card"} ELSE {})
                        \cup (IF \E r \in Resources : res[r] >= 4
                              THEN {"bank_trade"} ELSE {})
                        \cup (IF holds("Knight") THEN {"play_knight"} ELSE {})
                        \cup (IF holds("RoadBuilding") THEN {"play_road_building"} ELSE {})
                        \cup (IF holds("YearOfPlenty") THEN {"play_year_of_plenty"} ELSE {})
                        \cup (IF holds("Monopoly") THEN {"play_monopoly"} ELSE {})
                        \cup (IF total > 0 THEN {"propose_trade"} ELSE {})
                        \cup {"end_turn"}
                   [] OTHER -> {}
        answers(trade, ids) == \E i \in 1..Len(ids) : ids[i] = playerId
        tradeTools ==
            IF \E i \in 1..Len(tradeOffers) :
                  LET trade == tradeOffers[i]
                  IN  /\ trade.isActive
                      /\ trade.fromPlayerId # playerId
                      /\ trade.toPlayerId = -1 \/ trade.toPlayerId = playerId
                      /\ ~answers(trade, trade.acceptedByPlayerIds)
                      /\ ~answers(trade, trade.rejectedByPlayerIds)
            THEN {"accept_trade", "reject_trade", "counter_trade"}
            ELSE {}
    IN  turnTools \cup {"send_chat"} \cup tradeTools

\* every name that availableTools can list
ToolNames ==
    {"roll_dice", "play_knight", "move_robber", "build_road", "build_settlement",
     "build_city", "buy_dev_card", "bank_trade", "play_road_building",
     "play_year_of_plenty", "play_monopoly", "propose_trade", "end_turn", "send_chat",
     "accept_trade", "reject_trade", "counter_trade"}

\* the language model picks a tool that the view of the current player lists
NextTools ==
    \E tool \in ToolNames :
        \E a \in ExecutorArgs(tool) :
            /\ tool \in availableTools(currentPlayerIndex)
            /\ ProcessSingleAITurn(tool, a)

SpecTools == InitPile /\ [][NextTools]_vars

\* C38: a tool that the view of the current player lists is never answered by
\* the executor with the rejection of an unknown tool (the one failure whose
\* reply carries arguments)
C38_ListedToolsImplemented ==
    [][response'.op \in availableTools(currentPlayerIndex)
          => response'.ok \/ response'.args = <<>>]_vars

(***************************************************************************)
(* verticesEqual and edgesEqual as relations on the coordinates of the     *)
(* board.                                                                  *)
(***************************************************************************)
\* C39: verticesEqual and edgesEqual are reflexive, symmetric and transitive
\* on the coordinates of the board: for a call on x and y the result is that
\* of the call on y and x, x equals itself, and when x equals y everything
\* that y equals is equal to x as well
C39_EquivalenceRelations ==
    /\ response.op = "verticesEqual" =>
          LET v1 == response.args[1]
              v2 == response.args[2]
          IN  /\ verticesEqual(v1, v1)
              /\ response.ok = verticesEqual(v2, v1)
              /\ \A v3 \in BoardKeys :
                    (response.ok /\ verticesEqual(v2, v3)) => verticesEqual(v1, v3)
    /\ response.op = "edgesEqual" =>
          LET e1 == response.args[1]
              e2 == response.args[2]
          IN  /\ edgesEqual(e1, e1)
              /\ response.ok = edgesEqual(e2, e1)
              /\ \A e3 \in BoardKeys :
                    (response.ok /\ edgesEqual(e2, e3)) => edgesEqual(e1, e3)

(***************************************************************************)
(* The geometry helpers against each other (game_logic.cpp 36-96).         *)
(***************************************************************************)
\* a caller asks for the edges at a vertex of the board and for its adjacent
\* vertices; the results depend on the argument alone, so one call is made
\* from the initial state
CallGetEdgesAtVertex(v) ==
    /\ response = NoResponse
    /\ response' = [ok |-> TRUE, path |-> "core", op |-> "getEdgesAtVertex",
                    player |-> NoPlayer,
                    args |-> <<v, getEdgesAtVertex(v), getAdjacentVertices(v)>>]
    /\ UNCHANGED <<gameVars, turnsEnded, mutex, threads, executor>>

NextGeometry == \E v \in BoardKeys : CallGetEdgesAtVertex(v)

SpecGeometry == Init /\ [][NextGeometry]_vars

\* C40: each of the three edges at a vertex v has an endpoint that
\* verticesEqual identifies with v (in either order of the arguments); no
\* adjacent vertex is identified with v or with another adjacent vertex; and
\* each adjacent vertex is the other endpoint of one of the edges at v
C40_GeometryAgrees ==
    response.op = "getEdgesAtVertex" =>
        LET v == response.args[1]
            es == response.args[2]
            adj == response.args[3]
            same(a, b) == verticesEqual(a, b) \/ verticesEqual(b, a)
            ends(e) == getVerticesOfEdge(e)
        IN  /\ \A i \in 1..3 : \E j \in 1..2 : same(ends(es[i])[j], v)
            /\ \A i \in 1..3 : ~same(adj[i], v)
            /\ \A i \in 1..3, j \in 1..3 : i # j => ~same(adj[i], adj[j])
            /\ \A i \in 1..3 : \E k \in 1..3, j \in 1..2 :
                  /\ same(ends(es[k])[j], v)
                  /\ same(ends(es[k])[3 - j], adj[i])

====
